---- MODULE Spec2Model ----
(***************************************************************************)
(* ipman: regions drawn on a canvas, filled by an AI Gateway, then moved,  *)
(* resized, edited or refined.                                             *)
(*                                                                         *)
(* State machine of useRegions (the Region Store), GridCanvas (selection)  *)
(* and RegionOverlay (drag / resize / edit / refine), with the Gateway's   *)
(* outstanding calls as messages in flight.                                *)
(*                                                                         *)
(* Conventions                                                             *)
(*  - A nullable value is None (<<>>) or Some(v) (<<v>>).                  *)
(*  - `region-${Date.now()}` is modelled by the clock reading itself.      *)
(*  - The pointer's position is an input of each pointer event: clientX /  *)
(*    clientY for the overlay, the tracked mouse.elX / elY for the canvas. *)
(*  - regions and overlays are parallel sequences: overlays[i] is the      *)
(*    React state of the RegionOverlay rendered for regions[i].            *)
(*  - Which DOM element the pointer is over is an input of a press, not    *)
(*    derived from the rectangles.                                         *)
(***************************************************************************)
EXTENDS Integers, Sequences, FiniteSets, TLC

VARIABLES
    now,            \* the last reading of Date.now()
    canvasSize,     \* useCanvas: canvasSize
    regions,        \* useRegions: regions (committed list)
    pendingRegion,  \* useRegions: pendingRegion
    requests,       \* Gateway calls awaiting their promise
    dragState,      \* GridCanvas: dragState (selection in progress)
    overlays,       \* RegionOverlay state, one per committed region
    gatewayCalls,   \* history: Gateway calls ever issued
    calls,          \* history: per committed region, the calls issued for it
    succeeded,      \* history: the calls that resolved with a tree
    gestures,       \* history: drag / resize gestures ever started
    resizeCalls,    \* history: calls of handleRegionResize
    released,       \* history: what the last selection release did
    fnIn,           \* input of the pure-function specifications
    fnOut           \* their output

vars == <<now, canvasSize, regions, pendingRegion, requests, dragState,
          overlays, gatewayCalls, calls, succeeded, gestures, resizeCalls,
          released, fnIn, fnOut>>

storeVars == <<regions, pendingRegion>>
histVars == <<gatewayCalls, calls, succeeded, gestures, resizeCalls, released>>
fnVars == <<fnIn, fnOut>>

----------------------------------------------------------------------------
(* Bounds of the model *)

\* clock readings 0..MaxTime
MaxTime == 1
\* Gateway calls plus gestures in one run
MaxOps == 2
\* pointer deltas of the pure-function specifications, in steps of DeltaStep
MaxDelta == 2

(* Program constants *)

MIN_SELECTION_SIZE == 50
MIN_SIZE == 50

----------------------------------------------------------------------------
(* Values *)

None == <<>>
Some(v) == <<v>>

Max(a, b) == IF a >= b THEN a ELSE b
Min(a, b) == IF a <= b THEN a ELSE b
Abs(a) == IF a >= 0 THEN a ELSE 0 - a

\* pointer positions of the canvas's events, and of the overlays' events
Points == { [x |-> 0, y |-> 0], [x |-> 40, y |-> 100], [x |-> 100, y |-> 40],
            [x |-> 89, y |-> 40], [x |-> 100, y |-> 51], [x |-> 90, y |-> 50] }

OverlayPoints == { [x |-> 40, y |-> 100], [x |-> 100, y |-> 40] }

\* where a selection starts
PressPoints == { [x |-> 40, y |-> 100] }

Prompts == { "navbar" }
RefineTexts == { "make it blue" }
ErrMsgs == { "No response from OpenAI" }

Tree(element, className) ==
    [element |-> element, className |-> className]

Trees == { Tree("header", "flex"), Tree("button", "bg-red-500") }

CanvasSizes == { [width |-> 800, height |-> 600],
                 [width |-> 1024, height |-> 768] }

Handles == { <<"n">>, <<"s">>, <<"e">>, <<"w">>,
             <<"n", "e">>, <<"n", "w">>, <<"s", "e">>, <<"s", "w">> }

Includes(handle, c) == \E k \in 1..Len(handle) : handle[k] = c

Indices(s) == 1..Len(s)


----------------------------------------------------------------------------
(* Geometry: GridCanvas selection, RegionOverlay drag-move and resize *)

\* SelectionBounds that takes the drag origin as the corner and the signed
\* distance as the size
SelectionBoundsSigned(ds, m) ==
    [x |-> ds.startX,
     y |-> ds.startY,
     width |-> m.x - ds.startX,
     height |-> m.y - ds.startY]

SelectionBounds(ds, m) ==
    [x |-> Min(ds.startX, m.x),
     y |-> Min(ds.startY, m.y),
     width |-> Abs(m.x - ds.startX),
     height |-> Abs(m.y - ds.startY)]

\* IsCommittable with one axis enough
IsCommittableEitherAxis(width, height) ==
    width >= MIN_SELECTION_SIZE \/ height >= MIN_SELECTION_SIZE

\* IsCommittable that tests the width only
IsCommittableWidthOnly(width, height) ==
    width >= MIN_SELECTION_SIZE

IsCommittable(width, height) ==
    width >= MIN_SELECTION_SIZE /\ height >= MIN_SELECTION_SIZE

\* DragBounds that stretches the region by the pointer delta as it moves it
DragBoundsStretching(startBounds, deltaX, deltaY) ==
    [x |-> startBounds.x + deltaX, y |-> startBounds.y + deltaY,
     width |-> startBounds.width + deltaX,
     height |-> startBounds.height + deltaY]

DragBounds(startBounds, deltaX, deltaY) ==
    [startBounds EXCEPT !.x = startBounds.x + deltaX,
                        !.y = startBounds.y + deltaY]

\* ResizeBounds with the west handle's width not floored at MIN_SIZE
ResizeBoundsUnclamped(handle, startBounds, deltaX, deltaY) ==
    LET b1 == IF Includes(handle, "e")
              THEN [startBounds EXCEPT
                      !.width = Max(MIN_SIZE, startBounds.width + deltaX)]
              ELSE startBounds
        b2 == IF Includes(handle, "w")
              THEN [b1 EXCEPT !.x = startBounds.x + deltaX,
                              !.width = startBounds.width - deltaX]
              ELSE b1
        b3 == IF Includes(handle, "s")
              THEN [b2 EXCEPT !.height = Max(MIN_SIZE, startBounds.height + deltaY)]
              ELSE b2
    IN  IF Includes(handle, "n")
        THEN LET newHeight == Max(MIN_SIZE, startBounds.height - deltaY)
             IN  [b3 EXCEPT !.y = startBounds.y + (startBounds.height - newHeight),
                            !.height = newHeight]
        ELSE b3

\* ResizeBounds with the west / north edge following the pointer past the floor
ResizeBoundsOvershoot(handle, startBounds, deltaX, deltaY) ==
    LET b1 == IF Includes(handle, "e")
              THEN [startBounds EXCEPT
                      !.width = Max(MIN_SIZE, startBounds.width + deltaX)]
              ELSE startBounds
        b2 == IF Includes(handle, "w")
              THEN [b1 EXCEPT !.x = startBounds.x + deltaX,
                              !.width = Max(MIN_SIZE, startBounds.width - deltaX)]
              ELSE b1
        b3 == IF Includes(handle, "s")
              THEN [b2 EXCEPT !.height = Max(MIN_SIZE, startBounds.height + deltaY)]
              ELSE b2
    IN  IF Includes(handle, "n")
        THEN [b3 EXCEPT !.y = startBounds.y + deltaY,
                        !.height = Max(MIN_SIZE, startBounds.height - deltaY)]
        ELSE b3

\* ResizeBounds whose east handle re-anchors x the way the west handle does
ResizeBoundsEastShiftsX(handle, startBounds, deltaX, deltaY) ==
    LET b1 == IF Includes(handle, "e")
              THEN LET newWidth == Max(MIN_SIZE, startBounds.width + deltaX)
                   IN  [startBounds EXCEPT
                          !.x = startBounds.x + (startBounds.width - newWidth),
                          !.width = newWidth]
              ELSE startBounds
        b2 == IF Includes(handle, "w")
              THEN LET newWidth == Max(MIN_SIZE, startBounds.width - deltaX)
                   IN  [b1 EXCEPT !.x = startBounds.x + (startBounds.width - newWidth),
                                  !.width = newWidth]
              ELSE b1
        b3 == IF Includes(handle, "s")
              THEN [b2 EXCEPT !.height = Max(MIN_SIZE, startBounds.height + deltaY)]
              ELSE b2
    IN  IF Includes(handle, "n")
        THEN LET newHeight == Max(MIN_SIZE, startBounds.height - deltaY)
             IN  [b3 EXCEPT !.y = startBounds.y + (startBounds.height - newHeight),
                            !.height = newHeight]
        ELSE b3

\* ResizeBounds written as an else-if chain: a handle with a horizontal letter
\* never reaches the vertical rules
ResizeBoundsElseIf(handle, startBounds, deltaX, deltaY) ==
    IF Includes(handle, "e")
    THEN [startBounds EXCEPT !.width = Max(MIN_SIZE, startBounds.width + deltaX)]
    ELSE IF Includes(handle, "w")
    THEN LET newWidth == Max(MIN_SIZE, startBounds.width - deltaX)
         IN  [startBounds EXCEPT
                !.x = startBounds.x + (startBounds.width - newWidth),
                !.width = newWidth]
    ELSE IF Includes(handle, "s")
    THEN [startBounds EXCEPT !.height = Max(MIN_SIZE, startBounds.height + deltaY)]
    ELSE IF Includes(handle, "n")
    THEN LET newHeight == Max(MIN_SIZE, startBounds.height - deltaY)
         IN  [startBounds EXCEPT
                !.y = startBounds.y + (startBounds.height - newHeight),
                !.height = newHeight]
    ELSE startBounds

ResizeBounds(handle, startBounds, deltaX, deltaY) ==
    LET b0 == startBounds
        b1 == IF Includes(handle, "e")
              THEN [b0 EXCEPT !.width = Max(MIN_SIZE, startBounds.width + deltaX)]
              ELSE b0
        b2 == IF Includes(handle, "w")
              THEN LET newWidth == Max(MIN_SIZE, startBounds.width - deltaX)
                       widthDiff == startBounds.width - newWidth
                   IN  [b1 EXCEPT !.x = startBounds.x + widthDiff,
                                  !.width = newWidth]
              ELSE b1
        b3 == IF Includes(handle, "s")
              THEN [b2 EXCEPT !.height = Max(MIN_SIZE, startBounds.height + deltaY)]
              ELSE b2
        b4 == IF Includes(handle, "n")
              THEN LET newHeight == Max(MIN_SIZE, startBounds.height - deltaY)
                       heightDiff == startBounds.height - newHeight
                   IN  [b3 EXCEPT !.y = startBounds.y + heightDiff,
                                  !.height = newHeight]
              ELSE b3
    IN  b4

----------------------------------------------------------------------------
(* Region Store: useRegions *)

NewRegion(bounds, t) ==
    [id |-> t, bounds |-> bounds, prompt |-> "", component |-> None,
     loading |-> FALSE, error |-> None]

\* RegionWithPrompt committed without the loading flag
RegionWithPromptNotLoading(regionId, prompt, pending) ==
    [id |-> regionId, bounds |-> pending.bounds, prompt |-> prompt,
     component |-> None, loading |-> FALSE, error |-> None]

RegionWithPrompt(regionId, prompt, pending) ==
    [id |-> regionId, bounds |-> pending.bounds, prompt |-> prompt,
     component |-> None, loading |-> TRUE, error |-> None]

\* GenerationContext that lists the region being generated among the
\* existing ones
GenerationContextWithSelf(pending, size, rs) ==
    [bounds |-> pending.bounds,
     canvasSize |-> size,
     existingRegions |->
        [i \in 1..(Len(rs) + 1) |->
            IF i <= Len(rs) THEN [prompt |-> rs[i].prompt, bounds |-> rs[i].bounds]
            ELSE [prompt |-> pending.prompt, bounds |-> pending.bounds]]]

GenerationContext(pending, size, rs) ==
    [bounds |-> pending.bounds,
     canvasSize |-> size,
     existingRegions |->
        [i \in Indices(rs) |-> [prompt |-> rs[i].prompt, bounds |-> rs[i].bounds]]]

GenerateRequest(regionId, prompt, context, n) ==
    [kind |-> "generate", id |-> regionId, prompt |-> prompt,
     context |-> Some(context), component |-> None, n |-> n]

RefineRequest(regionId, component, refinementPrompt, n) ==
    [kind |-> "refine", id |-> regionId, prompt |-> refinementPrompt,
     context |-> None, component |-> Some(component), n |-> n]

\* prev.map((r) => r.id === regionId ? updated : r), updated[i] being the
\* replacement computed from rs[i]
MapRegions(rs, regionId, updated) ==
    [i \in Indices(rs) |-> IF rs[i].id = regionId THEN updated[i] ELSE rs[i]]

\* GenerateSucceeded that leaves the loading flag set
GenerateSucceededStillLoading(r, component) ==
    [r EXCEPT !.component = Some(component)]

GenerateSucceeded(r, component) ==
    [r EXCEPT !.component = Some(component), !.loading = FALSE]

\* GenerateFailed that leaves the loading flag set
GenerateFailedStillLoading(r, errorMessage) ==
    [r EXCEPT !.error = Some(errorMessage)]

GenerateFailed(r, errorMessage) ==
    [r EXCEPT !.loading = FALSE, !.error = Some(errorMessage)]

RefineStarted(r) ==
    [r EXCEPT !.loading = TRUE, !.error = None]

\* RefineSucceeded that keeps the previous tree's className
RefineSucceededMerges(r, refinedComponent) ==
    [r EXCEPT !.component = Some(Tree(refinedComponent.element,
                                      r.component[1].className)),
              !.loading = FALSE]

RefineSucceeded(r, refinedComponent) ==
    [r EXCEPT !.component = Some(refinedComponent), !.loading = FALSE]

RefineFailed(r, errorMessage) ==
    [r EXCEPT !.loading = FALSE, !.error = Some(errorMessage)]

\* indices that prev.filter((r) => r.id !== regionId) keeps, in order
KeptIndices(rs, regionId) ==
    SelectSeq([i \in Indices(rs) |-> i], LAMBDA i : rs[i].id # regionId)

Keep(s, kept) == [k \in Indices(kept) |-> s[kept[k]]]

\* HandleRegionResize that rebuilds the region without its loading flag
HandleRegionResizeEndsLoading(rs, regionId, newBounds) ==
    MapRegions(rs, regionId,
               [i \in Indices(rs) |-> [rs[i] EXCEPT !.bounds = newBounds,
                                                    !.loading = FALSE]])

HandleRegionResize(rs, regionId, newBounds) ==
    MapRegions(rs, regionId,
               [i \in Indices(rs) |-> [rs[i] EXCEPT !.bounds = newBounds]])

HandleComponentUpdate(rs, regionId, newComponent) ==
    MapRegions(rs, regionId,
               [i \in Indices(rs) |-> [rs[i] EXCEPT !.component = Some(newComponent)]])

\* regions.find((r) => r.id === regionId)
Find(rs, regionId) ==
    LET hits == { i \in Indices(rs) : rs[i].id = regionId }
    IN  IF hits = {} THEN None
        ELSE Some(rs[CHOOSE i \in hits : \A j \in hits : i <= j])

----------------------------------------------------------------------------
(* RegionOverlay state *)

NewOverlay ==
    [resizeState |-> None, dragState |-> None, localBounds |-> None,
     isEditing |-> FALSE, editError |-> None, isRefining |-> FALSE]

IsInInputMode(ov) == ov.isEditing \/ ov.isRefining

IsInteracting(ov) == ov.resizeState # None \/ ov.dragState # None

\* ShowsComponent that leaves the error out of the condition
ShowsComponentDespiteError(r) == r.component # None /\ ~r.loading

\* the buttons and panels drawn only for component && !loading && !error
ShowsComponent(r) == r.component # None /\ ~r.loading /\ r.error = None

PointerUp ==
    /\ dragState = None
    /\ \A i \in Indices(overlays) : ~IsInteracting(overlays[i])


----------------------------------------------------------------------------
(* Initial state: empty store, no selection, no call in flight *)

NoInput == [handle |-> <<"e">>,
            startBounds |-> [x |-> 0, y |-> 0, width |-> 50, height |-> 50],
            deltaX |-> 0, deltaY |-> 0]

Init ==
    /\ now = 0
    /\ canvasSize = [width |-> 800, height |-> 600]
    /\ regions = <<>>
    /\ pendingRegion = None
    /\ requests = {}
    /\ dragState = None
    /\ overlays = <<>>
    /\ gatewayCalls = 0
    /\ calls = <<>>
    /\ succeeded = {}
    /\ gestures = 0
    /\ resizeCalls = 0
    /\ released = "none"
    /\ fnIn = NoInput
    /\ fnOut = None

----------------------------------------------------------------------------
(* Environment: the clock and the pointer *)

\* what Date.now() may return when it is next read: the wall clock has not
\* gone back since the last reading, and may not have advanced either
ClockReadings == now..MaxTime

\* the drag effect's and the resize effect's handleMouseMove
OverlayMouseMove(ov, p) ==
    LET dragged ==
            IF ov.dragState # None
            THEN LET ds == ov.dragState[1]
                 IN  [ov EXCEPT !.localBounds =
                        Some(DragBounds(ds.startBounds, p.x - ds.startX, p.y - ds.startY))]
            ELSE ov
    IN  IF ov.resizeState # None
        THEN LET rz == ov.resizeState[1]
             IN  [dragged EXCEPT !.localBounds =
                    Some(ResizeBounds(rz.handle, rz.startBounds,
                                      p.x - rz.startX, p.y - rz.startY))]
        ELSE dragged

\* MouseMove that commits every candidate to the store as the pointer moves
MouseMoveCommitting(p) ==
    /\ overlays' = [i \in Indices(overlays) |-> OverlayMouseMove(overlays[i], p)]
    /\ regions' = [i \in Indices(regions) |->
                     IF overlays'[i].localBounds # None
                     THEN [regions[i] EXCEPT !.bounds = overlays'[i].localBounds[1]]
                     ELSE regions[i]]
    /\ UNCHANGED <<now, canvasSize, pendingRegion, requests, dragState,
                   histVars, fnVars>>

\* one mousemove event while a gesture is active: its listeners run
MouseMove(p) ==
    /\ overlays' = [i \in Indices(overlays) |-> OverlayMouseMove(overlays[i], p)]
    /\ UNCHANGED <<now, canvasSize, regions, pendingRegion, requests, dragState,
                   histVars, fnVars>>

----------------------------------------------------------------------------
(* GridCanvas: selection *)

\* primary press on empty canvas
HandleMouseDown(p) ==
    /\ PointerUp
    /\ dragState' = Some([isDragging |-> TRUE, startX |-> p.x, startY |-> p.y])
    /\ UNCHANGED <<now, canvasSize, regions, pendingRegion, requests,
                   overlays, histVars, fnVars>>

\* HandleMouseUp that keeps a draft already waiting for its prompt
HandleMouseUpKeepsDraft(p, t) ==
    /\ dragState # None
    /\ dragState[1].isDragging
    /\ LET b == SelectionBounds(dragState[1], p)
       IN  IF IsCommittable(b.width, b.height) /\ pendingRegion = None
           THEN /\ pendingRegion' = Some(NewRegion(b, t))
                /\ now' = t
                /\ released' = "created"
           ELSE /\ t = now
                /\ released' = IF IsCommittable(b.width, b.height)
                               THEN "replaced" ELSE "discarded"
                /\ UNCHANGED <<pendingRegion, now>>
    /\ dragState' = None
    /\ UNCHANGED <<canvasSize, regions, requests, overlays, gatewayCalls, calls,
                   succeeded, gestures, resizeCalls, fnVars>>

\* release (or leaving the canvas) while selecting; t is what Date.now()
\* returns if handleSelectionComplete runs
HandleMouseUp(p, t) ==
    /\ dragState # None
    /\ dragState[1].isDragging
    /\ LET b == SelectionBounds(dragState[1], p)
       IN  IF IsCommittable(b.width, b.height)
           THEN /\ pendingRegion' = Some(NewRegion(b, t))   \* handleSelectionComplete
                /\ now' = t
                /\ released' = IF pendingRegion = None THEN "created" ELSE "replaced"
           ELSE /\ t = now
                /\ released' = "discarded"
                /\ UNCHANGED <<pendingRegion, now>>
    /\ dragState' = None
    /\ UNCHANGED <<canvasSize, regions, requests, overlays, gatewayCalls, calls,
                   succeeded, gestures, resizeCalls, fnVars>>

----------------------------------------------------------------------------
(* useRegions handlers *)

\* PromptInput submits a non-empty prompt for the pending region
HandlePromptSubmit(regionId, prompt) ==
    /\ pendingRegion # None
    /\ gatewayCalls + gestures < MaxOps
    /\ pendingRegion' = None
    /\ regions' = Append(regions, RegionWithPrompt(regionId, prompt, pendingRegion[1]))
    /\ overlays' = Append(overlays, NewOverlay)
    /\ requests' = requests \cup
          { GenerateRequest(regionId, prompt,
                            GenerationContext(pendingRegion[1], canvasSize, regions),
                            gatewayCalls + 1) }
    /\ gatewayCalls' = gatewayCalls + 1
    /\ calls' = Append(calls, {gatewayCalls + 1})
    /\ UNCHANGED <<now, canvasSize, dragState, succeeded, gestures,
                   resizeCalls, released, fnVars>>

PromptSubmit(prompt) ==
    /\ pendingRegion # None
    /\ HandlePromptSubmit(pendingRegion[1].id, prompt)

\* HandleRegionDelete without the early return after clearing the pending slot
HandleRegionDeleteNoReturn(regionId) ==
    /\ pendingRegion' =
          IF pendingRegion # None /\ pendingRegion[1].id = regionId
          THEN None ELSE pendingRegion
    /\ LET kept == KeptIndices(regions, regionId)
       IN  /\ regions' = Keep(regions, kept)
           /\ overlays' = Keep(overlays, kept)
           /\ calls' = Keep(calls, kept)
    /\ UNCHANGED <<now, canvasSize, requests, dragState, gatewayCalls, succeeded,
                   gestures, resizeCalls, released, fnVars>>

HandleRegionDelete(regionId) ==
    /\ IF pendingRegion # None /\ pendingRegion[1].id = regionId
       THEN /\ pendingRegion' = None
            /\ UNCHANGED <<regions, overlays, calls>>
       ELSE LET kept == KeptIndices(regions, regionId)
            IN  /\ regions' = Keep(regions, kept)
                /\ overlays' = Keep(overlays, kept)
                /\ calls' = Keep(calls, kept)
                /\ UNCHANGED pendingRegion
    /\ UNCHANGED <<now, canvasSize, requests, dragState, gatewayCalls, succeeded,
                   gestures, resizeCalls, released, fnVars>>

\* PromptInput's Cancel / Escape
PromptCancel ==
    /\ pendingRegion # None
    /\ HandleRegionDelete(pendingRegion[1].id)

\* the overlay's delete button
DeleteClick(i) ==
    /\ ~IsInInputMode(overlays[i])
    /\ HandleRegionDelete(regions[i].id)

\* HandleClearAll that forgets the pending slot
HandleClearAllKeepsPending ==
    /\ regions' = <<>>
    /\ overlays' = <<>>
    /\ calls' = <<>>
    /\ UNCHANGED <<now, canvasSize, pendingRegion, requests, dragState,
                   gatewayCalls, succeeded, gestures, resizeCalls, released, fnVars>>

\* HandleClearAll that keeps the regions still waiting for the Gateway
HandleClearAllKeepsLoading ==
    /\ LET kept == SelectSeq([i \in Indices(regions) |-> i],
                             LAMBDA i : regions[i].loading)
       IN  /\ regions' = Keep(regions, kept)
           /\ overlays' = Keep(overlays, kept)
           /\ calls' = Keep(calls, kept)
    /\ pendingRegion' = None
    /\ UNCHANGED <<now, canvasSize, requests, dragState, gatewayCalls, succeeded,
                   gestures, resizeCalls, released, fnVars>>

HandleClearAll ==
    /\ regions' = <<>>
    /\ pendingRegion' = None
    /\ overlays' = <<>>
    /\ calls' = <<>>
    /\ UNCHANGED <<now, canvasSize, requests, dragState, gatewayCalls, succeeded,
                   gestures, resizeCalls, released, fnVars>>

\* Header's Clear All button, drawn while the committed list is not empty
ClearAllClick ==
    /\ Len(regions) > 0
    /\ HandleClearAll

----------------------------------------------------------------------------
(* Gateway responses: the continuations of handlePromptSubmit / handleRefine *)

GenerateResolves(rq, component) ==
    /\ rq.kind = "generate"
    /\ requests' = requests \ {rq}
    /\ regions' = MapRegions(regions, rq.id,
          [i \in Indices(regions) |-> GenerateSucceeded(regions[i], component)])
    /\ succeeded' = succeeded \cup {rq.n}
    /\ UNCHANGED <<now, canvasSize, pendingRegion, dragState, overlays,
                   gatewayCalls, calls, gestures, resizeCalls, released, fnVars>>

\* GenerateRejects that issues the call again
GenerateRejectsRetries(rq, errorMessage) ==
    /\ rq.kind = "generate"
    /\ requests' = (requests \ {rq}) \cup {[rq EXCEPT !.n = gatewayCalls + 1]}
    /\ gatewayCalls' = gatewayCalls + 1
    /\ UNCHANGED <<now, canvasSize, regions, pendingRegion, dragState, overlays,
                   calls, succeeded, gestures, resizeCalls, released, fnVars>>

GenerateRejects(rq, errorMessage) ==
    /\ rq.kind = "generate"
    /\ requests' = requests \ {rq}
    /\ regions' = MapRegions(regions, rq.id,
          [i \in Indices(regions) |-> GenerateFailed(regions[i], errorMessage)])
    /\ UNCHANGED <<now, canvasSize, pendingRegion, dragState, overlays,
                   histVars, fnVars>>

RefineResolves(rq, refinedComponent) ==
    /\ rq.kind = "refine"
    /\ requests' = requests \ {rq}
    /\ regions' = MapRegions(regions, rq.id,
          [i \in Indices(regions) |-> RefineSucceeded(regions[i], refinedComponent)])
    /\ succeeded' = succeeded \cup {rq.n}
    /\ UNCHANGED <<now, canvasSize, pendingRegion, dragState, overlays,
                   gatewayCalls, calls, gestures, resizeCalls, released, fnVars>>

RefineRejects(rq, errorMessage) ==
    /\ rq.kind = "refine"
    /\ requests' = requests \ {rq}
    /\ regions' = MapRegions(regions, rq.id,
          [i \in Indices(regions) |-> RefineFailed(regions[i], errorMessage)])
    /\ UNCHANGED <<now, canvasSize, pendingRegion, dragState, overlays,
                   histVars, fnVars>>


----------------------------------------------------------------------------
(* RegionOverlay: drag-move and resize gestures *)

HandleDragStart(i, p) ==
    /\ PointerUp
    /\ gatewayCalls + gestures < MaxOps
    /\ ~IsInInputMode(overlays[i])
    /\ overlays' = [overlays EXCEPT
          ![i].dragState = Some([startX |-> p.x, startY |-> p.y,
                                 startBounds |-> regions[i].bounds]),
          ![i].localBounds = Some(regions[i].bounds)]
    /\ gestures' = gestures + 1
    /\ UNCHANGED <<now, canvasSize, regions, pendingRegion, requests, dragState,
                   gatewayCalls, calls, succeeded, resizeCalls, released, fnVars>>

HandleResizeStart(i, handle, p) ==
    /\ PointerUp
    /\ gatewayCalls + gestures < MaxOps
    /\ overlays' = [overlays EXCEPT
          ![i].resizeState = Some([handle |-> handle,
                                   startX |-> p.x, startY |-> p.y,
                                   startBounds |-> regions[i].bounds]),
          ![i].localBounds = Some(regions[i].bounds)]
    /\ gestures' = gestures + 1
    /\ UNCHANGED <<now, canvasSize, regions, pendingRegion, requests, dragState,
                   gatewayCalls, calls, succeeded, resizeCalls, released, fnVars>>

\* document mouseup while overlay i drags or resizes: the effects' handleMouseUp
OverlayMouseUp(i) ==
    /\ IsInteracting(overlays[i])
    /\ IF overlays[i].localBounds # None
       THEN /\ regions' = HandleRegionResize(regions, regions[i].id,
                                             overlays[i].localBounds[1])
            /\ resizeCalls' = resizeCalls + 1
       ELSE UNCHANGED <<regions, resizeCalls, released>>
    /\ overlays' = [overlays EXCEPT ![i].dragState = None,
                                    ![i].resizeState = None,
                                    ![i].localBounds = None]
    /\ UNCHANGED <<now, canvasSize, pendingRegion, requests, dragState,
                   gatewayCalls, calls, succeeded, gestures, released, fnVars>>

----------------------------------------------------------------------------
(* RegionOverlay: refine mode *)

\* HandleStartRefine without the check of the input mode
HandleStartRefineAnyMode(i) ==
    /\ ShowsComponent(regions[i])
    /\ ~overlays[i].isRefining
    /\ overlays' = [overlays EXCEPT ![i].isRefining = TRUE]
    /\ UNCHANGED <<now, canvasSize, regions, pendingRegion, requests, dragState,
                   histVars, fnVars>>

HandleStartRefine(i) ==
    /\ ShowsComponent(regions[i])
    /\ ~IsInInputMode(overlays[i])
    /\ overlays' = [overlays EXCEPT ![i].isRefining = TRUE]
    /\ UNCHANGED <<now, canvasSize, regions, pendingRegion, requests, dragState,
                   histVars, fnVars>>

HandleCancelRefine(i) ==
    /\ ShowsComponent(regions[i])
    /\ overlays[i].isRefining
    /\ ~overlays[i].isEditing
    /\ overlays' = [overlays EXCEPT ![i].isRefining = FALSE]
    /\ UNCHANGED <<now, canvasSize, regions, pendingRegion, requests, dragState,
                   histVars, fnVars>>

\* useRegions.handleRefine
HandleRefine(regionId, refinementPrompt) ==
    LET region == Find(regions, regionId)
    IN  IF region = None \/ region[1].component = None
        THEN UNCHANGED <<regions, requests, gatewayCalls>>
        ELSE /\ regions' = MapRegions(regions, regionId,
                      [i \in Indices(regions) |-> RefineStarted(regions[i])])
             /\ requests' = requests \cup
                   { RefineRequest(regionId, region[1].component[1],
                                   refinementPrompt, gatewayCalls + 1) }
             /\ gatewayCalls' = gatewayCalls + 1

HandleSubmitRefine(i, refinePrompt) ==
    /\ ShowsComponent(regions[i])
    /\ overlays[i].isRefining
    /\ ~overlays[i].isEditing
    /\ gatewayCalls + gestures < MaxOps
    /\ HandleRefine(regions[i].id, refinePrompt)
    /\ calls' = IF gatewayCalls' = gatewayCalls THEN calls
                ELSE [calls EXCEPT ![i] = @ \cup {gatewayCalls'}]
    /\ overlays' = [overlays EXCEPT ![i].isRefining = FALSE]
    /\ UNCHANGED <<now, canvasSize, pendingRegion, dragState, succeeded,
                   gestures, resizeCalls, released, fnVars>>

----------------------------------------------------------------------------
(* RegionOverlay: manual edit of the component's JSON *)

\* What the text buffer holds when Save is pressed: whether JSON.parse accepts
\* it, and the parsed value (element "" stands for a missing or empty element).
EditBuffers ==
    { [parses |-> FALSE, value |-> Tree("", "")],
      [parses |-> TRUE, value |-> Tree("", "x")] }
    \cup { [parses |-> TRUE, value |-> t] : t \in Trees }

HandleStartEdit(i) ==
    /\ ShowsComponent(regions[i])
    /\ ~IsInInputMode(overlays[i])
    /\ overlays' = [overlays EXCEPT ![i].isEditing = TRUE, ![i].editError = None]
    /\ UNCHANGED <<now, canvasSize, regions, pendingRegion, requests, dragState,
                   histVars, fnVars>>

\* HandleSaveEdit that closes the editor when the buffer is rejected
HandleSaveEditClosesOnError(i, buffer) ==
    /\ ShowsComponent(regions[i])
    /\ overlays[i].isEditing
    /\ IF ~buffer.parses \/ buffer.value.element = ""
       THEN /\ overlays' = [overlays EXCEPT ![i].isEditing = FALSE,
                                            ![i].editError = Some("Invalid JSON")]
            /\ UNCHANGED regions
       ELSE /\ regions' = HandleComponentUpdate(regions, regions[i].id, buffer.value)
            /\ overlays' = [overlays EXCEPT ![i].isEditing = FALSE,
                                            ![i].editError = None]
    /\ UNCHANGED <<now, canvasSize, pendingRegion, requests, dragState,
                   histVars, fnVars>>

\* HandleSaveEdit without the check of the parsed tree's element
HandleSaveEditUnvalidated(i, buffer) ==
    /\ ShowsComponent(regions[i])
    /\ overlays[i].isEditing
    /\ IF ~buffer.parses
       THEN /\ overlays' = [overlays EXCEPT ![i].editError = Some("Invalid JSON")]
            /\ UNCHANGED regions
       ELSE /\ regions' = HandleComponentUpdate(regions, regions[i].id, buffer.value)
            /\ overlays' = [overlays EXCEPT ![i].isEditing = FALSE,
                                            ![i].editError = None]
    /\ UNCHANGED <<now, canvasSize, pendingRegion, requests, dragState,
                   histVars, fnVars>>

HandleSaveEdit(i, buffer) ==
    /\ ShowsComponent(regions[i])
    /\ overlays[i].isEditing
    /\ IF ~buffer.parses
       THEN /\ overlays' = [overlays EXCEPT ![i].editError = Some("Invalid JSON")]
            /\ UNCHANGED regions
       ELSE IF buffer.value.element = ""
       THEN /\ overlays' = [overlays EXCEPT ![i].editError =
                               Some("Missing or invalid \"element\" field")]
            /\ UNCHANGED regions
       ELSE /\ regions' = HandleComponentUpdate(regions, regions[i].id, buffer.value)
            /\ overlays' = [overlays EXCEPT ![i].isEditing = FALSE,
                                            ![i].editError = None]
    /\ UNCHANGED <<now, canvasSize, pendingRegion, requests, dragState,
                   histVars, fnVars>>

HandleCancelEdit(i) ==
    /\ ShowsComponent(regions[i])
    /\ overlays[i].isEditing
    /\ overlays' = [overlays EXCEPT ![i].isEditing = FALSE, ![i].editError = None]
    /\ UNCHANGED <<now, canvasSize, regions, pendingRegion, requests, dragState,
                   histVars, fnVars>>

----------------------------------------------------------------------------
(* The application *)

Next ==
    \/ \E p \in OverlayPoints : MouseMove(p)
    \/ \E p \in PressPoints : HandleMouseDown(p)
    \/ \E p \in Points, t \in ClockReadings : HandleMouseUp(p, t)
    \/ \E prompt \in Prompts : PromptSubmit(prompt)
    \/ PromptCancel
    \/ \E i \in Indices(regions) : DeleteClick(i)
    \/ ClearAllClick
    \/ \E rq \in requests, c \in Trees : GenerateResolves(rq, c)
    \/ \E rq \in requests, m \in ErrMsgs : GenerateRejects(rq, m)
    \/ \E rq \in requests, c \in Trees : RefineResolves(rq, c)
    \/ \E rq \in requests, m \in ErrMsgs : RefineRejects(rq, m)
    \/ \E i \in Indices(regions), p \in OverlayPoints : HandleDragStart(i, p)
    \/ \E i \in Indices(regions), h \in Handles, p \in OverlayPoints :
          HandleResizeStart(i, h, p)
    \/ \E i \in Indices(regions) : OverlayMouseUp(i)
    \/ \E i \in Indices(regions) : HandleStartRefine(i)
    \/ \E i \in Indices(regions) : HandleCancelRefine(i)
    \/ \E i \in Indices(regions), t \in RefineTexts : HandleSubmitRefine(i, t)
    \/ \E i \in Indices(regions) : HandleStartEdit(i)
    \/ \E i \in Indices(regions), b \in EditBuffers : HandleSaveEdit(i, b)
    \/ \E i \in Indices(regions) : HandleCancelEdit(i)

Spec == Init /\ [][Next]_vars


----------------------------------------------------------------------------
(* The resize computation alone: every handle, start bounds of at least    *)
(* MIN_SIZE, pointer deltas up to far beyond the start size.               *)

Deltas == { 30 * k : k \in (0 - MaxDelta)..MaxDelta } \cup { 0 - 100000, 100000 }

StartBounds ==
    [x : {0, 40}, y : {0, 40}, width : {50, 80, 110}, height : {50, 80, 110}]

ResizeInputs ==
    [handle : Handles, startBounds : StartBounds, deltaX : Deltas, deltaY : Deltas]

InitResize ==
    /\ now = 0
    /\ canvasSize = [width |-> 800, height |-> 600]
    /\ regions = <<>>
    /\ pendingRegion = None
    /\ requests = {}
    /\ dragState = None
    /\ overlays = <<>>
    /\ gatewayCalls = 0
    /\ calls = <<>>
    /\ succeeded = {}
    /\ gestures = 0
    /\ resizeCalls = 0
    /\ released = "none"
    /\ fnIn \in ResizeInputs
    /\ fnOut = None

ApplyResize ==
    /\ fnOut = None
    /\ fnOut' = Some(ResizeBounds(fnIn.handle, fnIn.startBounds,
                                  fnIn.deltaX, fnIn.deltaY))
    /\ UNCHANGED <<now, canvasSize, regions, pendingRegion, requests, dragState,
                   overlays, histVars, fnIn>>

NextResize == ApplyResize

SpecResize == InitResize /\ [][NextResize]_vars


----------------------------------------------------------------------------
(* The Region Store alone: the handlers useRegions returns, called with any *)
(* region id, and the Gateway's responses.                                  *)

\* ids a caller may pass: region-${t} for every clock reading t
StoreIds == 0..MaxTime

StoreBounds == { [x |-> 0, y |-> 0, width |-> 50, height |-> 50],
                 [x |-> 40, y |-> 40, width |-> 60, height |-> 60] }

HandleSelectionComplete(bounds, t) ==
    /\ pendingRegion' = Some(NewRegion(bounds, t))
    /\ now' = t
    /\ UNCHANGED <<canvasSize, regions, requests, dragState, overlays,
                   histVars, fnVars>>

\* GridCanvas's ResizeObserver reporting the container's size
HandleCanvasSizeChange(size) ==
    /\ canvasSize' = size
    /\ UNCHANGED <<now, regions, pendingRegion, requests, dragState, overlays,
                   histVars, fnVars>>

\* onRegionResize(regionId, newBounds)
RegionResize(regionId, newBounds) ==
    /\ regions' = HandleRegionResize(regions, regionId, newBounds)
    /\ UNCHANGED <<now, canvasSize, pendingRegion, requests, dragState, overlays,
                   histVars, fnVars>>

\* onRefine(regionId, refinementPrompt); the call is recorded for the region
\* that regions.find returned
Refine(regionId, refinementPrompt) ==
    /\ gatewayCalls + gestures < MaxOps
    /\ HandleRefine(regionId, refinementPrompt)
    /\ calls' = IF gatewayCalls' = gatewayCalls THEN calls
                ELSE LET first == CHOOSE i \in Indices(regions) :
                                     /\ regions[i].id = regionId
                                     /\ \A j \in 1..(i - 1) : regions[j].id # regionId
                     IN  [calls EXCEPT ![first] = @ \cup {gatewayCalls'}]
    /\ UNCHANGED <<now, canvasSize, pendingRegion, dragState, overlays, succeeded,
                   gestures, resizeCalls, released, fnVars>>

NextStore ==
    \/ \E b \in StoreBounds, t \in ClockReadings : HandleSelectionComplete(b, t)
    \/ \E id \in StoreIds, prompt \in Prompts : HandlePromptSubmit(id, prompt)
    \/ \E id \in StoreIds : HandleRegionDelete(id)
    \/ HandleClearAll
    \/ \E rq \in requests, c \in Trees : GenerateResolves(rq, c)
    \/ \E rq \in requests, m \in ErrMsgs : GenerateRejects(rq, m)
    \/ \E id \in StoreIds, t \in RefineTexts : Refine(id, t)
    \/ \E rq \in requests, c \in Trees : RefineResolves(rq, c)
    \/ \E rq \in requests, m \in ErrMsgs : RefineRejects(rq, m)

SpecStore == Init /\ [][NextStore]_vars

\* Properties of the Region Store's handlers (checked under SpecStore)

\* C16: confirmPrompt(regionId, prompt) with no pending region, or with a
\* pending region of another id, leaves the committed list and the pending
\* slot unchanged and issues no Gateway call.
C16_ConfirmNeedsMatchingPending ==
    [][\A id \in StoreIds, prompt \in Prompts :
          (/\ HandlePromptSubmit(id, prompt)
           /\ (pendingRegion = None \/ pendingRegion[1].id # id)) =>
             UNCHANGED <<regions, pendingRegion, requests, gatewayCalls>>]_vars

\* C18: cancelPending(regionId) clears the pending slot when regionId is the
\* pending region's id and leaves the committed list alone; with no pending
\* region, or one of another id, it changes neither the pending slot nor the
\* committed list.
C18_CancelOnlyTouchesPending ==
    [][\A id \in StoreIds :
          HandleRegionDelete(id) =>
             IF pendingRegion # None /\ pendingRegion[1].id = id
             THEN pendingRegion' = None /\ regions' = regions
             ELSE UNCHANGED <<regions, pendingRegion>>]_vars

\* C19: deleteRegion(regionId) with the pending region's id clears the pending
\* slot and leaves the committed list unchanged; otherwise it removes every
\* committed region of that id, leaving the others unchanged and in their
\* order, and leaves the pending slot alone; an id matching nothing changes
\* nothing.
C19_DeleteById ==
    [][\A id \in StoreIds :
          HandleRegionDelete(id) =>
             /\ IF pendingRegion # None /\ pendingRegion[1].id = id
                THEN pendingRegion' = None /\ regions' = regions
                ELSE /\ pendingRegion' = pendingRegion
                     /\ regions' = SelectSeq(regions, LAMBDA r : r.id # id)
             /\ (/\ pendingRegion = None \/ pendingRegion[1].id # id
                 /\ \A i \in Indices(regions) : regions[i].id # id) =>
                   UNCHANGED <<regions, pendingRegion>>]_vars

\* the region of the second call was deleted; the first one is still there
C19_Witness ==
    /\ gatewayCalls = 2
    /\ Len(regions) = 1
    /\ calls[1] = {1}
    /\ requests # {}


----------------------------------------------------------------------------
(* The selection rectangle alone: a press at any origin, the pointer at any *)
(* current point, the rectangle drawn and then the release.                 *)

SelectCoords == {0, 50, 99, 200}

SelectInputs ==
    [origin : [x : SelectCoords, y : SelectCoords],
     current : [x : SelectCoords, y : SelectCoords]]

InitSelect ==
    /\ now = 0
    /\ canvasSize = [width |-> 800, height |-> 600]
    /\ regions = <<>>
    /\ pendingRegion = None
    /\ requests = {}
    /\ overlays = <<>>
    /\ gatewayCalls = 0
    /\ calls = <<>>
    /\ succeeded = {}
    /\ gestures = 0
    /\ resizeCalls = 0
    /\ released = "none"
    /\ fnIn \in SelectInputs
    /\ dragState = Some([isDragging |-> TRUE,
                         startX |-> fnIn.origin.x, startY |-> fnIn.origin.y])
    /\ fnOut = None

\* the rectangle GridCanvas draws while selecting
ShowSelection ==
    /\ dragState # None
    /\ dragState[1].isDragging
    /\ fnOut = None
    /\ fnOut' = Some(SelectionBounds(dragState[1], fnIn.current))
    /\ UNCHANGED <<now, canvasSize, regions, pendingRegion, requests, dragState,
                   overlays, histVars, fnIn>>

ReleaseSelection ==
    /\ fnOut # None
    /\ HandleMouseUp(fnIn.current, now)

NextSelect == ShowSelection \/ ReleaseSelection

SpecSelect == InitSelect /\ [][NextSelect]_vars

\* Properties of the selection rectangle (checked under SpecSelect)

\* b is the rectangle spanned by the points o and c
Spans(b, o, c) ==
    /\ b.x \in {o.x, c.x} /\ b.x <= o.x /\ b.x <= c.x
    /\ b.y \in {o.y, c.y} /\ b.y <= o.y /\ b.y <= c.y
    /\ b.width >= 0 /\ b.width \in {c.x - o.x, o.x - c.x}
    /\ b.height >= 0 /\ b.height \in {c.y - o.y, o.y - c.y}

\* C15: for every drag origin and current point the selection bounds are
\* x = min(ox,cx), y = min(oy,cy), width = |cx-ox|, height = |cy-oy|, never
\* negative in either size; a committable release hands exactly these bounds
\* to the Region Store.
C15_SelectionBounds ==
    /\ fnOut # None => Spans(fnOut[1], fnIn.origin, fnIn.current)
    /\ pendingRegion # None =>
          /\ Spans(pendingRegion[1].bounds, fnIn.origin, fnIn.current)
          /\ pendingRegion[1].bounds = fnOut[1]

\* a selection dragged up and to the left, released and handed to the store
C15_Witness ==
    /\ fnIn.origin = [x |-> 200, y |-> 99]
    /\ fnIn.current = [x |-> 50, y |-> 0]
    /\ pendingRegion # None
    /\ pendingRegion[1].bounds = [x |-> 50, y |-> 0, width |-> 150, height |-> 99]


----------------------------------------------------------------------------
(* Properties of the resize computation (checked under SpecResize) *)

\* C9: for every handle, every start bounds of at least 50 x 50 and every
\* pointer delta, however large, the resize output is at least 50 wide and
\* 50 high.
C9_ResizeOutputAtLeastMinSize ==
    fnOut # None =>
        /\ fnIn.startBounds.width >= 50 /\ fnIn.startBounds.height >= 50
        /\ fnOut[1].width >= 50
        /\ fnOut[1].height >= 50

\* a north-west resize dragged far past the opposite corner
C9_Witness ==
    /\ fnOut # None
    /\ fnIn.handle = <<"n", "w">>
    /\ fnIn.deltaX > fnIn.startBounds.width
    /\ fnIn.deltaY > fnIn.startBounds.height
    /\ fnOut[1].width = 50
    /\ fnOut[1].height = 50

\* C10: a handle containing 'w' keeps the right edge fixed for every delta,
\* with width = max(50, startWidth - dx), so width is exactly 50 and
\* x = startX + startWidth - 50 once dx > startWidth - 50; a handle containing
\* 'n' keeps the bottom edge fixed, with height = max(50, startHeight - dy).
C10_FarEdgeFixed ==
    fnOut # None =>
        LET b == fnIn.startBounds
            out == fnOut[1]
        IN  /\ Includes(fnIn.handle, "w") =>
                /\ out.x + out.width = b.x + b.width
                /\ out.width = Max(50, b.width - fnIn.deltaX)
                /\ fnIn.deltaX > b.width - 50 =>
                      out.width = 50 /\ out.x = b.x + b.width - 50
            /\ Includes(fnIn.handle, "n") =>
                /\ out.y + out.height = b.y + b.height
                /\ out.height = Max(50, b.height - fnIn.deltaY)
                /\ fnIn.deltaY > b.height - 50 =>
                      out.height = 50 /\ out.y = b.y + b.height - 50

\* a west resize whose shrink delta exceeds startWidth - 50
C10_Witness ==
    /\ fnOut # None
    /\ fnIn.handle = <<"w">>
    /\ fnIn.startBounds.width = 80
    /\ fnIn.deltaX = 60
    /\ fnOut[1].x = fnIn.startBounds.x + 30

\* C11: handle 'e' leaves x, y and height at the start bounds and sets
\* width = max(50, startWidth + dx); handle 's' leaves x, y and width at the
\* start bounds and sets height = max(50, startHeight + dy).
C11_EastSouthKeepAnchor ==
    fnOut # None =>
        LET b == fnIn.startBounds
            out == fnOut[1]
        IN  /\ fnIn.handle = <<"e">> =>
                out = [x |-> b.x, y |-> b.y,
                       width |-> Max(50, b.width + fnIn.deltaX),
                       height |-> b.height]
            /\ fnIn.handle = <<"s">> =>
                out = [x |-> b.x, y |-> b.y,
                       width |-> b.width,
                       height |-> Max(50, b.height + fnIn.deltaY)]

\* an east resize shrunk onto the floor, the anchor corner still in place
C11_Witness ==
    /\ fnOut # None
    /\ fnIn.handle = <<"e">>
    /\ fnIn.startBounds.x = 40
    /\ fnIn.startBounds.width = 80
    /\ fnIn.deltaX = 0 - 60
    /\ fnOut[1].width = 50
    /\ fnOut[1].x = 40

\* the letters of a handle: its horizontal edge and its vertical edge, if any
HorizontalEdge(handle) ==
    IF Includes(handle, "e") THEN <<"e">>
    ELSE IF Includes(handle, "w") THEN <<"w">> ELSE <<>>

VerticalEdge(handle) ==
    IF Includes(handle, "s") THEN <<"s">>
    ELSE IF Includes(handle, "n") THEN <<"n">> ELSE <<>>

\* C12: a corner handle's x and width are those its horizontal edge handle
\* alone gives for dx, its y and height those its vertical edge handle alone
\* gives for dy; an edge handle leaves the other axis at the start bounds.
C12_CornersComposePerAxis ==
    fnOut # None =>
        LET b == fnIn.startBounds
            out == fnOut[1]
            hz == HorizontalEdge(fnIn.handle)
            vt == VerticalEdge(fnIn.handle)
            alongX == ResizeBounds(hz, b, fnIn.deltaX, 0)
            alongY == ResizeBounds(vt, b, 0, fnIn.deltaY)
        IN  /\ hz # <<>> => out.x = alongX.x /\ out.width = alongX.width
            /\ vt # <<>> => out.y = alongY.y /\ out.height = alongY.height
            /\ hz = <<>> => out.x = b.x /\ out.width = b.width
            /\ vt = <<>> => out.y = b.y /\ out.height = b.height

\* a south-west resize that grows to the west and is floored to the south
C12_Witness ==
    /\ fnOut # None
    /\ fnIn.handle = <<"s", "w">>
    /\ fnIn.deltaX = 0 - 30
    /\ fnIn.deltaY = 0 - 100000
    /\ fnOut[1].width = fnIn.startBounds.width + 30
    /\ fnOut[1].x = fnIn.startBounds.x - 30
    /\ fnOut[1].height = 50
    /\ fnOut[1].y = fnIn.startBounds.y


----------------------------------------------------------------------------
(* Properties of the application (checked under Spec) *)

IssuedForCommitted == UNION { calls[i] : i \in Indices(calls) }

\* a step in which the promise of call rq settles
Settles(rq) == rq \in requests /\ requests' = requests \ {rq}

\* C1: in every reachable state every committed region is at least 50 wide
\* and 50 high, whatever selections, submissions, drag and resize commits,
\* deletes, clearAll and Gateway responses came before.
C1_CommittedAtLeastMinSize ==
    \A i \in Indices(regions) :
        regions[i].bounds.width >= 50 /\ regions[i].bounds.height >= 50

\* a resize commit that shrank a region onto the floor
C1_Witness ==
    /\ resizeCalls > 0
    /\ \E i \in Indices(regions) :
          regions[i].bounds.width = 50 /\ regions[i].bounds.height > 50

\* C2: when the call of a region that was deleted while the call was
\* outstanding settles (success or failure), the committed list and the
\* pending slot are the same after the response as before it.
C2_LateResponseIsNoOp ==
    [][\A rq \in requests :
          (Settles(rq) /\ rq.n \notin IssuedForCommitted)
             => UNCHANGED <<regions, pendingRegion>>]_vars

\* C3: confirmPrompt for the pending region appends exactly one region at the
\* end of the committed list, with the pending id and bounds, the given
\* prompt, component null, loading true and no error, and empties the pending
\* slot.
C3_ConfirmPromptAppends ==
    [][\A prompt \in Prompts :
          PromptSubmit(prompt) =>
             /\ pendingRegion' = None
             /\ regions' = Append(regions,
                   [id |-> pendingRegion[1].id,
                    bounds |-> pendingRegion[1].bounds,
                    prompt |-> prompt,
                    component |-> None,
                    loading |-> TRUE,
                    error |-> None])]_vars

\* just after a submission, before its response: the new region is last
C3_Witness ==
    /\ pendingRegion = None
    /\ Len(regions) = 2
    /\ regions[2].loading /\ regions[2].component = None
    /\ \E rq \in requests : rq.kind = "generate" /\ rq.n \in calls[2]

\* C4: no committed region has loading = true and an error at the same time.
C4_LoadingExcludesError ==
    \A i \in Indices(regions) : ~(regions[i].loading /\ regions[i].error # None)

\* a refinement failed: the region keeps its component and shows the error
C4_Witness ==
    \E i \in Indices(regions) :
        /\ regions[i].error # None
        /\ regions[i].component # None
        /\ ~regions[i].loading

\* C5: a committed region's component is null exactly when no call issued for
\* that region has succeeded, and no step sets a non-null component back to
\* null.
C5_ComponentNullIffNoSuccess ==
    [][/\ \A i \in Indices(regions') :
             (regions'[i].component = None) <=> (calls'[i] \cap succeeded' = {})
       /\ Len(regions') >= Len(regions) =>
             \A i \in Indices(regions) :
                 regions[i].component # None => regions'[i].component # None]_vars

\* C6: the ids of the committed regions are pairwise distinct and differ from
\* the pending region's id.
C6_IdsUnique ==
    /\ \A i, j \in Indices(regions) : i # j => regions[i].id # regions[j].id
    /\ pendingRegion # None =>
          \A i \in Indices(regions) : regions[i].id # pendingRegion[1].id

\* C7: there is at most one pending region; it is a draft (empty prompt, no
\* component, not loading) that is no member of the committed list; it
\* appears only by a committable selection release and lasts until the next
\* prompt submission, cancel, delete of its id, or clearAll.
C7_PendingLifecycle ==
    [][/\ Len(pendingRegion') <= 1
       /\ pendingRegion' # None =>
             /\ pendingRegion'[1].prompt = ""
             /\ pendingRegion'[1].component = None
             /\ ~pendingRegion'[1].loading
             /\ \A i \in Indices(regions') : regions'[i] # pendingRegion'[1]
       /\ (pendingRegion' # None /\ pendingRegion' # pendingRegion) =>
             \E p \in Points, t \in ClockReadings :
                 /\ HandleMouseUp(p, t)
                 /\ LET b == SelectionBounds(dragState[1], p)
                    IN  /\ b.width >= 50 /\ b.height >= 50
                        /\ pendingRegion'[1].bounds = b
       /\ (pendingRegion # None /\ pendingRegion' = None) =>
             \/ \E prompt \in Prompts : PromptSubmit(prompt)
             \/ PromptCancel
             \/ \E i \in Indices(regions) :
                   DeleteClick(i) /\ regions[i].id = pendingRegion[1].id
             \/ HandleClearAll
       /\ (pendingRegion # None /\
             ((\E prompt \in Prompts : PromptSubmit(prompt)) \/ PromptCancel
                \/ HandleClearAll)) =>
             pendingRegion' = None]_vars

\* a draft waiting for its prompt next to a committed region
C7_Witness ==
    /\ pendingRegion # None
    /\ Len(regions) > 0
    /\ pendingRegion[1].bounds.width >= 50

\* C8: from the start of a drag-move or resize gesture until its release,
\* pointer moves change only that overlay's candidate bounds and leave the
\* committed list and the pending slot unchanged; the release calls resize
\* once, with the candidate, and clears the gesture state and the candidate.
C8_GestureCommitsOnRelease ==
    [][/\ \A i \in Indices(regions), p \in OverlayPoints, h \in Handles :
             (HandleDragStart(i, p) \/ HandleResizeStart(i, h, p)) =>
                /\ UNCHANGED <<regions, pendingRegion, resizeCalls, released>>
                /\ overlays'[i].localBounds = Some(regions[i].bounds)
       /\ \A p \in OverlayPoints :
             MouseMove(p) =>
                /\ UNCHANGED <<regions, pendingRegion, resizeCalls, released>>
                /\ \A i \in Indices(overlays) :
                      /\ overlays'[i] =
                            [overlays[i] EXCEPT !.localBounds = overlays'[i].localBounds]
                      /\ ~IsInteracting(overlays[i]) => overlays'[i] = overlays[i]
       /\ \A i \in Indices(regions) :
             OverlayMouseUp(i) =>
                /\ resizeCalls' = resizeCalls + 1
                /\ pendingRegion' = pendingRegion
                /\ Len(regions') = Len(regions)
                /\ \A j \in Indices(regions) :
                      regions'[j] =
                         IF regions[j].id = regions[i].id
                         THEN [regions[j] EXCEPT !.bounds = overlays[i].localBounds[1]]
                         ELSE regions[j]
                /\ overlays'[i].dragState = None
                /\ overlays'[i].resizeState = None
                /\ overlays'[i].localBounds = None]_vars

\* a gesture was released after the pointer moved: the stored bounds are the
\* candidate, and no gesture state is left
C8_Witness ==
    /\ resizeCalls = 1
    /\ \A i \in Indices(overlays) :
          ~IsInteracting(overlays[i]) /\ overlays[i].localBounds = None
    /\ \E i \in Indices(regions) :
          regions[i].bounds # [x |-> 40, y |-> 40, width |-> 60, height |-> 60]

\* overlay ov is in a drag-move gesture
IsDragMove(ov) == ov.dragState # None /\ ov.resizeState = None

\* C13: during a drag-move the candidate bounds are the start bounds moved by
\* the pointer delta, with the start width and height; the commit at release
\* stores that candidate, so the region's width and height are what they were
\* before the gesture.
C13_DragMoveKeepsSize ==
    [][/\ \A p \in OverlayPoints :
             MouseMove(p) =>
                \A i \in Indices(overlays) :
                    IsDragMove(overlays[i]) =>
                       LET ds == overlays[i].dragState[1]
                       IN  /\ ds.startBounds = regions[i].bounds
                           /\ overlays'[i].localBounds =
                                Some([x |-> ds.startBounds.x + (p.x - ds.startX),
                                      y |-> ds.startBounds.y + (p.y - ds.startY),
                                      width |-> ds.startBounds.width,
                                      height |-> ds.startBounds.height])
       /\ \A i \in Indices(regions) :
             (OverlayMouseUp(i) /\ IsDragMove(overlays[i])) =>
                /\ regions'[i].bounds = overlays[i].localBounds[1]
                /\ regions'[i].bounds.width = regions[i].bounds.width
                /\ regions'[i].bounds.height = regions[i].bounds.height]_vars

\* a region moved by a committed drag: elsewhere, same size
C13_Witness ==
    /\ resizeCalls = 1
    /\ \E i \in Indices(regions) :
          /\ regions[i].bounds.x = 100
          /\ regions[i].bounds.y = 0 - 20
          /\ regions[i].bounds.width = 60
          /\ regions[i].bounds.height = 60

\* C14: a release whose selection is narrower or lower than 50 creates no
\* pending region and no committed region: neither the press nor the release
\* changes the committed list or the pending slot, and the canvas is idle
\* again (no selection in progress).
C14_SubThresholdDiscarded ==
    [][/\ \A p \in PressPoints :
             HandleMouseDown(p) => UNCHANGED <<regions, pendingRegion>>
       /\ \A p \in Points, t \in ClockReadings :
             (/\ HandleMouseUp(p, t)
              /\ \/ Abs(p.x - dragState[1].startX) < 50
                 \/ Abs(p.y - dragState[1].startY) < 50) =>
                /\ UNCHANGED <<regions, pendingRegion>>
                /\ dragState' = None]_vars

\* a sub-threshold selection was discarded while a draft was waiting
C14_Witness ==
    /\ released = "discarded"
    /\ dragState = None
    /\ pendingRegion # None
    /\ regions = <<>>

\* C17: a committable release while a draft is pending replaces the draft:
\* the pending slot then holds only the new draft (the bounds of this
\* selection, the id generated at this release) and the committed list is
\* unchanged; and whatever is committed later is the draft pending at that
\* moment, so a replaced draft is never committed.
C17_ReleaseReplacesDraft ==
    [][/\ \A p \in Points, t \in ClockReadings :
             (/\ HandleMouseUp(p, t)
              /\ pendingRegion # None
              /\ Abs(p.x - dragState[1].startX) >= 50
              /\ Abs(p.y - dragState[1].startY) >= 50) =>
                /\ pendingRegion' =
                      Some([id |-> t,
                            bounds |-> SelectionBounds(dragState[1], p),
                            prompt |-> "", component |-> None,
                            loading |-> FALSE, error |-> None])
                /\ regions' = regions
       /\ Len(regions') > Len(regions) =>
             /\ pendingRegion # None
             /\ regions' = Append(regions, regions'[Len(regions')])
             /\ regions'[Len(regions')].id = pendingRegion[1].id
             /\ regions'[Len(regions')].bounds = pendingRegion[1].bounds]_vars

\* a 50 x 50 draft replaced the draft that was waiting, and was then committed
C17_Witness ==
    /\ released = "replaced"
    /\ pendingRegion = None
    /\ gatewayCalls = 1
    /\ Len(regions) = 1
    /\ regions[1].bounds = [x |-> 40, y |-> 50, width |-> 50, height |-> 50]

C21_SaveEditRejectsOrStores ==
    [][\A i \in Indices(regions), buffer \in EditBuffers :
          HandleSaveEdit(i, buffer) =>
             IF buffer.parses /\ buffer.value.element # ""
             THEN /\ regions'[i].component = Some(buffer.value)
                  /\ ~overlays'[i].isEditing
             ELSE /\ UNCHANGED storeVars
                  /\ regions'[i].component = regions[i].component
                  /\ overlays'[i].editError \in
                        { Some("Invalid JSON"),
                          Some("Missing or invalid \"element\" field") }
                  /\ overlays'[i].isEditing
                  /\ overlays'[i].isRefining = overlays[i].isRefining]_vars

\* a buffer that is not JSON was rejected: the editor is still open over the
\* component the region had
C21_Witness ==
    \E i \in Indices(regions) :
        /\ overlays[i].isEditing
        /\ overlays[i].editError = Some("Invalid JSON")
        /\ ShowsComponent(regions[i])

\* C22: clearAll() leaves the committed list and the pending slot empty from
\* any state, and a Gateway response that arrives while the committed list is
\* empty (its request was issued before the list was cleared) leaves the list
\* empty and the pending slot as it was.
C22_ClearAllEmptiesForGood ==
    [][/\ HandleClearAll => (regions' = <<>> /\ pendingRegion' = None)
       /\ \A rq \in requests :
             (Settles(rq) /\ regions = <<>>) =>
                (regions' = <<>> /\ pendingRegion' = pendingRegion)]_vars

\* both calls have been issued and answered, one of them successfully, and
\* the list and the slot are empty
C22_Witness ==
    /\ regions = <<>>
    /\ pendingRegion = None
    /\ gatewayCalls = MaxOps
    /\ requests = {}
    /\ succeeded # {}

\* C23: when a Gateway call issued for a region that is still in the committed
\* list fails (generation or refinement), that region ends with loading false
\* and the failure's message as its error, its component, bounds, prompt and id
\* unchanged, and no other region changes.
C23_FailureMarksOnlyItsRegion ==
    [][\A rq \in requests, m \in ErrMsgs :
          (GenerateRejects(rq, m) \/ RefineRejects(rq, m)) =>
             /\ Len(regions') = Len(regions)
             /\ \A j \in Indices(regions) :
                   regions'[j] =
                      IF rq.n \in calls[j]
                      THEN [regions[j] EXCEPT !.loading = FALSE, !.error = Some(m)]
                      ELSE regions[j]]_vars

\* C24: submitting a refinement for a region that has a component sets that
\* region loading with its error cleared and issues exactly one refine call,
\* which carries the component the region has at submission and the
\* refinement text; when that call succeeds the region's component is replaced
\* in full by the returned tree and loading ends, bounds, prompt and id
\* unchanged.
C24_RefineReplacesComponent ==
    [][/\ \A i \in Indices(regions), t \in RefineTexts :
             HandleSubmitRefine(i, t) =>
                /\ regions[i].component # None
                /\ regions'[i] = [regions[i] EXCEPT !.loading = TRUE, !.error = None]
                /\ gatewayCalls' = gatewayCalls + 1
                /\ \E rq \in requests' \ requests :
                      /\ requests' = requests \cup {rq}
                      /\ rq.kind = "refine"
                      /\ rq.id = regions[i].id
                      /\ rq.component = regions[i].component
                      /\ rq.prompt = t
       /\ \A rq \in requests, c \in Trees :
             RefineResolves(rq, c) =>
                \A j \in Indices(regions) :
                   rq.n \in calls[j] =>
                      regions'[j] = [regions[j] EXCEPT !.component = Some(c),
                                                       !.loading = FALSE]]_vars

\* a region generated by one call and refined by a second, both successful
C24_Witness ==
    \E i \in Indices(regions) :
        /\ Cardinality(calls[i]) = 2
        /\ calls[i] \subseteq succeeded
        /\ ~regions[i].loading
        /\ regions[i].component # None

\* C25: no overlay is ever in refine mode and in edit mode at once, and an
\* overlay enters either mode only while its region has a component, is not
\* loading and has no error.
C25_InputModesExclusive ==
    [][/\ \A i \in Indices(overlays') :
             ~(overlays'[i].isRefining /\ overlays'[i].isEditing)
       /\ \A i \in Indices(regions) :
             (HandleStartRefine(i) \/ HandleStartEdit(i)) =>
                /\ regions[i].component # None
                /\ ~regions[i].loading
                /\ regions[i].error = None
                /\ ~overlays[i].isRefining
                /\ ~overlays[i].isEditing]_vars

\* one overlay is in refine mode while another is in edit mode
C25_Witness ==
    \E i, j \in Indices(overlays) :
        /\ overlays[i].isRefining /\ ~overlays[i].isEditing
        /\ overlays[j].isEditing /\ ~overlays[j].isRefining

\* C26: a region stays loading until a Gateway response for its id arrives:
\* in a step that keeps the committed list's length, a region that was loading
\* and no longer is has had a response for its id; in a step that changes the
\* length (submit, delete, clearAll) every region that is not loading
\* afterwards was in the list before, unchanged.
C26_OnlyResponseEndsLoading ==
    [][IF Len(regions') = Len(regions)
       THEN \A i \in Indices(regions) :
               (regions[i].loading /\ ~regions'[i].loading) =>
                  \E rq \in requests : Settles(rq) /\ rq.id = regions[i].id
       ELSE \A j \in Indices(regions') :
               ~regions'[j].loading =>
                  \E i \in Indices(regions) : regions[i] = regions'[j]]_vars

\* a region was moved or resized while its call is in flight, and is still
\* loading
C26_Witness ==
    \E i \in Indices(regions) :
        /\ regions[i].loading
        /\ resizeCalls > 0
        /\ \E rq \in requests :
              /\ rq.n \in calls[i]
              /\ rq.context # None
              /\ rq.context[1].bounds # regions[i].bounds

\* C27: there are no automatic retries: the count of Gateway calls grows by
\* exactly one, with exactly one new call in flight, in every accepted prompt
\* submission and every accepted refinement submission, and in no other step;
\* a failing call leaves the count alone and puts no call in flight.
C27_OneCallPerSubmission ==
    [][LET promptAccepted ==
              /\ pendingRegion # None
              /\ \E id \in StoreIds, prompt \in Prompts : HandlePromptSubmit(id, prompt)
           refineAccepted ==
              \E id \in StoreIds, t \in RefineTexts :
                 /\ Refine(id, t)
                 /\ Find(regions, id) # None
                 /\ Find(regions, id)[1].component # None
       IN  /\ (promptAccepted \/ refineAccepted) <=> gatewayCalls' # gatewayCalls
           /\ (promptAccepted \/ refineAccepted) <=> ~(requests' \subseteq requests)
           /\ gatewayCalls' # gatewayCalls =>
                 /\ gatewayCalls' = gatewayCalls + 1
                 /\ Cardinality(requests' \ requests) = 1
                 /\ requests \subseteq requests'
                 /\ \A rq \in requests' \ requests : rq.n = gatewayCalls'
           /\ \A rq \in requests, m \in ErrMsgs :
                 (GenerateRejects(rq, m) \/ RefineRejects(rq, m)) =>
                    /\ gatewayCalls' = gatewayCalls
                    /\ requests' = requests \ {rq}]_vars

\* the only call issued has failed: the region shows the error and no call is
\* in flight
C27_Witness ==
    \E i \in Indices(regions) :
        /\ regions[i].error # None
        /\ calls[i] = {1}
        /\ gatewayCalls = 1
        /\ requests = {}

----------------------------------------------------------------------------
(* The generation context: selections, submissions, canvas size changes,   *)
(* resizes and deletes while the Gateway calls are in flight.              *)

NextContext ==
    \/ \E b \in StoreBounds, t \in ClockReadings : HandleSelectionComplete(b, t)
    \/ \E prompt \in Prompts : PromptSubmit(prompt)
    \/ \E id \in StoreIds, b \in StoreBounds : RegionResize(id, b)
    \/ \E id \in StoreIds : HandleRegionDelete(id)
    \/ \E size \in CanvasSizes : HandleCanvasSizeChange(size)

SpecContext == Init /\ [][NextContext]_vars

\* C28: the context sent with a generation request holds the pending region's
\* bounds, the canvas size at submission and the prompt and bounds of exactly
\* the regions in the committed list at submission, the region being
\* generated not among them; later canvas size changes, resizes, deletes and
\* additions leave the requests in flight as they were sent.
C28_ContextIsSnapshot ==
    [][/\ \A prompt \in Prompts :
             PromptSubmit(prompt) =>
                \E rq \in requests' \ requests :
                   /\ rq.prompt = prompt
                   /\ rq.context # None
                   /\ rq.context[1].bounds = pendingRegion[1].bounds
                   /\ rq.context[1].canvasSize = canvasSize
                   /\ Len(rq.context[1].existingRegions) = Len(regions)
                   /\ \A i \in Indices(regions) :
                         rq.context[1].existingRegions[i] =
                            [prompt |-> regions[i].prompt,
                             bounds |-> regions[i].bounds]
       /\ requests \subseteq requests']_vars

\* a request in flight whose context still names the canvas size and the
\* bounds of the first region as they were when it was sent, both having
\* changed since
C28_Witness ==
    \E rq \in requests :
        /\ rq.context # None
        /\ rq.context[1].canvasSize # canvasSize
        /\ Len(rq.context[1].existingRegions) = 1
        /\ Len(regions) = 2
        /\ rq.context[1].existingRegions[1].bounds # regions[1].bounds

----------------------------------------------------------------------------
(* The Tree Renderer alone: DynamicComponent applied to a bounded set of    *)
(* trees. An element name is a sequence of characters, so that lower-casing *)
(* and trimming are computed; the tag looked up in the allowlist is a       *)
(* string.                                                                  *)

\* deepest tree rendered
MaxDepth == 3

UpperCase == <<"A", "B", "C", "D", "E", "F", "G", "H", "I", "J", "K", "L", "M",
               "N", "O", "P", "Q", "R", "S", "T", "U", "V", "W", "X", "Y", "Z">>

LowerCase == <<"a", "b", "c", "d", "e", "f", "g", "h", "i", "j", "k", "l", "m",
               "n", "o", "p", "q", "r", "s", "t", "u", "v", "w", "x", "y", "z">>

WhiteSpace == {" ", "\t", "\n"}

\* String.prototype.toLowerCase
ToLowerCase(s) ==
    [i \in Indices(s) |->
        IF \E k \in Indices(UpperCase) : UpperCase[k] = s[i]
        THEN LowerCase[CHOOSE k \in Indices(UpperCase) : UpperCase[k] = s[i]]
        ELSE s[i]]

RECURSIVE TrimStart(_)
TrimStart(s) ==
    IF s # <<>> /\ Head(s) \in WhiteSpace THEN TrimStart(Tail(s)) ELSE s

RECURSIVE TrimEnd(_)
TrimEnd(s) ==
    IF s # <<>> /\ s[Len(s)] \in WhiteSpace
    THEN TrimEnd(SubSeq(s, 1, Len(s) - 1))
    ELSE s

\* String.prototype.trim
Trim(s) == TrimEnd(TrimStart(s))

\* the string made of the characters of s
RECURSIVE Join(_)
Join(s) == IF s = <<>> THEN "" ELSE Head(s) \o Join(Tail(s))

VOID_ELEMENTS ==
    { "area", "base", "br", "col", "embed", "hr", "img", "input",
      "link", "meta", "param", "source", "track", "wbr" }

ALLOWED_ELEMENTS ==
    { "div", "span", "section", "article", "header", "footer", "main", "aside", "nav",
      "h1", "h2", "h3", "h4", "h5", "h6",
      "p", "a", "strong", "em", "small", "mark", "del", "ins", "sub", "sup", "br", "hr",
      "ul", "ol", "li", "dl", "dt", "dd",
      "form", "input", "textarea", "select", "option", "optgroup", "button", "label",
      "fieldset", "legend",
      "table", "thead", "tbody", "tfoot", "tr", "th", "td", "caption", "colgroup", "col",
      "img", "figure", "figcaption", "picture", "video", "audio", "source", "track",
      "blockquote", "pre", "code", "address", "time", "progress", "meter", "details",
      "summary" }

\* SanitizeElement that lets an unknown name through
SanitizeElementUnchecked(element) ==
    Join(Trim(ToLowerCase(element)))

SanitizeElement(element) ==
    LET normalized == Join(Trim(ToLowerCase(element)))
    IN  IF normalized \in ALLOWED_ELEMENTS THEN normalized ELSE "div"

\* a GeneratedComponent whose element is spelled out in characters
\* (props defaults to {} when the node has none)
Node(element, className, content, children) ==
    [element |-> element, className |-> className, props |-> <<>>,
     content |-> content, children |-> children]

\* the node with the given props, an ordered list of entries
WithProps(node, props) == [node EXCEPT !.props = props]

\* one entry of an object: a key and its value, None for undefined; the
\* value is kept as text with its typeof
Entry(key, value) == [key |-> key, value |-> value, type |-> "string"]

NumberEntry(key, n) == [key |-> key, value |-> Some(ToString(n)), type |-> "number"]

BooleanEntry(key, b) ==
    [key |-> key, value |-> Some(IF b THEN "true" ELSE "false"), type |-> "boolean"]

\* obj[key] = value on an object kept as its entries in insertion order
Put(entries, key, value) ==
    IF \E i \in Indices(entries) : entries[i].key = key
    THEN [i \in Indices(entries) |->
             IF entries[i].key = key THEN Entry(key, value) ELSE entries[i]]
    ELSE Append(entries, Entry(key, value))

\* obj[key], None when the object has no such key
Lookup(entries, key) ==
    IF \E i \in Indices(entries) : entries[i].key = key
    THEN entries[CHOOSE i \in Indices(entries) : entries[i].key = key].value
    ELSE None

\* the entries left once the undefined values are deleted
Defined(entries) == SelectSeq(entries, LAMBDA e : e.value # None)

\* what createElement returns; a text child has the tag "#text"
\* and no attributes; key is the element's React key, attrs its props
Display(tag, className, text, children) ==
    [tag |-> tag, className |-> className, key |-> None, attrs |-> <<>>,
     text |-> text, children |-> children]

\* CombinedClassName in which the author's classes replace the fill classes
CombinedClassNameReplacing(className, isRoot) ==
    IF className = None \/ className = Some("")
    THEN IF isRoot THEN Some("w-full h-full") ELSE None
    ELSE className

\* [rootClasses, className].filter(Boolean).join(' ') || undefined
CombinedClassName(className, isRoot) ==
    LET rootClasses == IF isRoot THEN "w-full h-full" ELSE ""
        given == IF className = None THEN "" ELSE className[1]
    IN  IF rootClasses = "" /\ given = "" THEN None
        ELSE IF rootClasses = "" THEN Some(given)
        ELSE IF given = "" THEN Some(rootClasses)
        ELSE Some(rootClasses \o " " \o given)

\* elementProps = {...props, className: combinedClassName, key}, the
\* undefined values deleted; a numeric key is kept as React keeps it, as text
ElementProps(node, key, isRoot) ==
    Defined(Put(Put(node.props, "className",
                    CombinedClassName(node.className, isRoot)),
                "key", key))

\* createElement(type, elementProps, ...childNodes): key is taken out of the
\* props and becomes the element's key
CreateElement(type, elementProps, childNodes) ==
    [Display(type, Lookup(elementProps, "className"), "", childNodes)
        EXCEPT !.key = Lookup(elementProps, "key"),
               !.attrs = SelectSeq(elementProps, LAMBDA e : e.key # "key")]

\* RenderElement that puts the text after the children
RECURSIVE RenderElementContentLast(_, _, _)
RenderElementContentLast(node, key, isRoot) ==
    LET sanitizedElement == SanitizeElement(node.element)
        elementProps == ElementProps(node, key, isRoot)
        text == IF node.content # None /\ node.content # Some("")
                THEN <<Display("#text", None, node.content[1], <<>>)>>
                ELSE <<>>
        childNodes ==
            [i \in Indices(node.children) |->
                RenderElementContentLast(node.children[i],
                                         Some(ToString(i - 1)), FALSE)] \o text
    IN  IF sanitizedElement \in VOID_ELEMENTS
        THEN CreateElement(sanitizedElement, elementProps, <<>>)
        ELSE CreateElement(sanitizedElement, elementProps, childNodes)

\* RenderElement that gives a void element its text and children as well
RECURSIVE RenderElementVoidKeepsChildren(_, _, _)
RenderElementVoidKeepsChildren(node, key, isRoot) ==
    LET sanitizedElement == SanitizeElement(node.element)
        elementProps == ElementProps(node, key, isRoot)
        text == IF node.content # None /\ node.content # Some("")
                THEN <<Display("#text", None, node.content[1], <<>>)>>
                ELSE <<>>
        childNodes ==
            text \o [i \in Indices(node.children) |->
                        RenderElementVoidKeepsChildren(node.children[i],
                                                       Some(ToString(i - 1)), FALSE)]
    IN  CreateElement(sanitizedElement, elementProps, childNodes)

RECURSIVE RenderElement(_, _, _)
RenderElement(node, key, isRoot) ==
    LET sanitizedElement == SanitizeElement(node.element)
        elementProps == ElementProps(node, key, isRoot)
        text == IF node.content # None /\ node.content # Some("")
                THEN <<Display("#text", None, node.content[1], <<>>)>>
                ELSE <<>>
        childNodes ==
            text \o [i \in Indices(node.children) |->
                        RenderElement(node.children[i], Some(ToString(i - 1)), FALSE)]
    IN  IF sanitizedElement \in VOID_ELEMENTS
        THEN CreateElement(sanitizedElement, elementProps, <<>>)
        ELSE CreateElement(sanitizedElement, elementProps, childNodes)

DynamicComponent(component) == RenderElement(component, None, TRUE)

RenderElements ==
    { <<"N", "a", "v">>, <<" ", "p", " ">>, <<"s", "c", "r", "i", "p", "t">>,
      <<"i", "m", "g">>, <<>> }

ClassNames == { None, Some(""), Some("p-4") }

Contents == { None, Some("Hi") }

Leaves ==
    { Node(e, c, t, <<>>) : e \in RenderElements, c \in ClassNames, t \in Contents }

\* the trees of at most d levels in which every node has at most one child
RECURSIVE NodesOfDepth(_)
NodesOfDepth(d) ==
    IF d <= 1 THEN Leaves
    ELSE Leaves \cup
         { Node(e, c, None, <<k>>) :
              e \in RenderElements, c \in ClassNames, k \in NodesOfDepth(d - 1) }

\* trees with text and two children under one node
WideNodes ==
    { Node(e, Some("flex"), Some("Hi"),
           <<Node(a, Some("p-4"), None, <<>>), Node(b, None, Some("Hi"), <<>>)>>) :
         e \in RenderElements, a \in RenderElements, b \in RenderElements }

\* props an author may give, className and key among the keys
PropsGiven ==
    { <<>>,
      <<Entry("href", Some("#"))>>,
      <<Entry("className", Some("text-sm")), Entry("id", Some("a"))>>,
      <<Entry("id", Some("a")), Entry("key", Some("k"))>>,
      <<NumberEntry("tabIndex", 0), BooleanEntry("disabled", TRUE),
        BooleanEntry("hidden", FALSE)>> }

\* trees with props at the root and at its child
PropNodes ==
    { WithProps(Node(e, c, None, <<WithProps(Node(e, c, None, <<>>), q)>>), p) :
         e \in {<<"N", "a", "v">>, <<"i", "m", "g">>},
         c \in ClassNames, p \in PropsGiven, q \in PropsGiven }

RenderInputs == NodesOfDepth(MaxDepth) \cup WideNodes \cup PropNodes

InitRender ==
    /\ now = 0
    /\ canvasSize = [width |-> 800, height |-> 600]
    /\ regions = <<>>
    /\ pendingRegion = None
    /\ requests = {}
    /\ dragState = None
    /\ overlays = <<>>
    /\ gatewayCalls = 0
    /\ calls = <<>>
    /\ succeeded = {}
    /\ gestures = 0
    /\ resizeCalls = 0
    /\ released = "none"
    /\ fnIn \in RenderInputs
    /\ fnOut = None

ApplyRender ==
    /\ fnOut = None
    /\ fnOut' = Some(DynamicComponent(fnIn))
    /\ UNCHANGED <<now, canvasSize, regions, pendingRegion, requests, dragState,
                   overlays, histVars, fnIn>>

NextRender == ApplyRender

SpecRender == InitRender /\ [][NextRender]_vars

\* Properties of the Tree Renderer (checked under SpecRender)

\* the display children that came from the node's children, in order
ElementChildren(display) ==
    SelectSeq(display.children, LAMBDA d : d.tag # "#text")

\* the tag a node is displayed with: its element lower-cased and trimmed when
\* the allowlist has it, "div" otherwise
ExpectedTag(node) ==
    LET name == Join(Trim(ToLowerCase(node.element)))
    IN  IF name \in ALLOWED_ELEMENTS THEN name ELSE "div"

\* display was rendered from node with the expected tag, and so were the
\* children that a non-void tag keeps
RECURSIVE TagsFollowAllowlist(_, _)
TagsFollowAllowlist(node, display) ==
    /\ display.tag = ExpectedTag(node)
    /\ display.tag \in ALLOWED_ELEMENTS
    /\ \/ display.tag \in VOID_ELEMENTS
       \/ /\ Len(ElementChildren(display)) = Len(node.children)
          /\ \A i \in Indices(node.children) :
                TagsFollowAllowlist(node.children[i], ElementChildren(display)[i])

\* C29: at every node of a rendered tree, root or deeper, the display tag is
\* the node's element lower-cased and trimmed when that is in the allowlist
\* and "div" otherwise; a tree with disallowed or unknown tags is rendered
\* all the same, every display tag being one of the allowlist.
C29_TagsFollowAllowlist ==
    fnOut # None => TagsFollowAllowlist(fnIn, fnOut[1])

\* a root "script" over a " p " over a "Nav": rendered as div, p, nav
C29_Witness ==
    /\ fnOut # None
    /\ fnIn.element = <<"s", "c", "r", "i", "p", "t">>
    /\ Len(fnIn.children) = 1
    /\ fnIn.children[1].element = <<" ", "p", " ">>
    /\ Len(fnIn.children[1].children) = 1
    /\ fnIn.children[1].children[1].element = <<"N", "a", "v">>
    /\ fnOut[1].tag = "div"
    /\ fnOut[1].children[1].tag = "p"
    /\ fnOut[1].children[1].children[1].tag = "nav"

\* what an author className amounts to: none when absent or empty
AuthorClassName(node) ==
    IF node.className = Some("") THEN None ELSE node.className

\* every display node below display carries its node's own className
RECURSIVE ChildrenKeepClassName(_, _)
ChildrenKeepClassName(node, display) ==
    \/ display.tag \in VOID_ELEMENTS
    \/ /\ Len(ElementChildren(display)) = Len(node.children)
       /\ \A i \in Indices(node.children) :
             /\ ElementChildren(display)[i].className =
                   AuthorClassName(node.children[i])
             /\ ChildrenKeepClassName(node.children[i], ElementChildren(display)[i])

\* C30: the rendered root carries "w-full h-full", followed by a space and the
\* author's className when one is given, also when the root's element was
\* replaced by "div"; every node below the root carries exactly its author's
\* className (none when the author gave none) and no forced class.
C30_RootFillsOthersKeepClassName ==
    fnOut # None =>
        /\ fnOut[1].className =
              IF AuthorClassName(fnIn) = None THEN Some("w-full h-full")
              ELSE Some("w-full h-full " \o fnIn.className[1])
        /\ ChildrenKeepClassName(fnIn, fnOut[1])

\* a root "script" with className "p-4" is a div with "w-full h-full p-4",
\* its child carrying "p-4" only
C30_Witness ==
    /\ fnOut # None
    /\ fnIn.element = <<"s", "c", "r", "i", "p", "t">>
    /\ fnIn.className = Some("p-4")
    /\ Len(fnIn.children) = 1
    /\ fnIn.children[1].className = Some("p-4")
    /\ fnOut[1].tag = "div"
    /\ fnOut[1].className = Some("w-full h-full p-4")
    /\ fnOut[1].children[1].className = Some("p-4")

\* every void element in display, at any depth, has no children and no text
RECURSIVE VoidElementsAreBare(_)
VoidElementsAreBare(display) ==
    /\ display.tag \in VOID_ELEMENTS => display.children = <<>>
    /\ \A i \in Indices(display.children) : VoidElementsAreBare(display.children[i])

RenderedAttribute(display, k) ==
    IF k = "key" THEN display.key ELSE Lookup(display.attrs, k)

\* every entry of the props of node, and of the nodes below that are
\* rendered, is an attribute of its display element with the same value
RECURSIVE PropsForwarded(_, _)
PropsForwarded(node, display) ==
    /\ \A n \in Indices(node.props) :
          RenderedAttribute(display, node.props[n].key) = node.props[n].value
    /\ \/ display.tag \in VOID_ELEMENTS
       \/ /\ Len(ElementChildren(display)) = Len(node.children)
          /\ \A i \in Indices(node.children) :
                PropsForwarded(node.children[i], ElementChildren(display)[i])

\* C32: every entry under a node's props is forwarded to the rendered element
\* as it is: for every key k of props the rendered element's attribute k is
\* props[k], also when k is className or key.
C32_PropsForwardedAsIs ==
    fnOut # None => PropsForwarded(fnIn, fnOut[1])

\* the children of a non-void display are the node's text, when it has one,
\* and then its children's displays in the order of the source, and so on
\* below
RECURSIVE ChildrenInOrder(_, _)
ChildrenInOrder(node, display) ==
    \/ display.tag \in VOID_ELEMENTS
    \/ LET hasText == node.content # None /\ node.content # Some("")
           offset == IF hasText THEN 1 ELSE 0
       IN  /\ Len(display.children) = offset + Len(node.children)
           /\ hasText =>
                 /\ display.children[1].tag = "#text"
                 /\ display.children[1].text = node.content[1]
           /\ \A i \in Indices(node.children) :
                 /\ display.children[offset + i].tag = ExpectedTag(node.children[i])
                 /\ display.children[offset + i].className =
                       AuthorClassName(node.children[i])
                 /\ display.children[offset + i].key = Some(ToString(i - 1))
                 /\ ChildrenInOrder(node.children[i], display.children[offset + i])

\* C33: a non-void node with content and children is rendered with the
\* content text first and then its rendered children in the order of the
\* source; with children only, with exactly the children in order; with
\* neither, as an empty container.
C33_ContentThenChildren ==
    fnOut # None => ChildrenInOrder(fnIn, fnOut[1])

\* a nav with text and two children: the text, then the two children in
\* their order
C33_Witness ==
    /\ fnOut # None
    /\ fnIn.element = <<"N", "a", "v">>
    /\ fnIn.content = Some("Hi")
    /\ Len(fnIn.children) = 2
    /\ fnIn.children[1].element = <<"i", "m", "g">>
    /\ fnIn.children[2].element = <<" ", "p", " ">>
    /\ Len(fnOut[1].children) = 3
    /\ fnOut[1].children[1].text = "Hi"
    /\ fnOut[1].children[2].tag = "img"
    /\ fnOut[1].children[3].tag = "p"

----------------------------------------------------------------------------
(* The code view: componentToJSX, the text RegionOverlay shows for a tree.  *)

\* content shorter than this stays on the element's line
ShortContent == 40

\* the characters of a string
Chars(str) == [i \in 1..Len(str) |-> SubSeq(str, i, i)]

\* strs.join(sep)
RECURSIVE JoinWith(_, _)
JoinWith(strs, sep) ==
    IF strs = <<>> THEN ""
    ELSE IF Len(strs) = 1 THEN strs[1]
    ELSE strs[1] \o sep \o JoinWith(Tail(strs), sep)

\* '  '.repeat(indent)
RECURSIVE Spaces(_)
Spaces(indent) == IF indent <= 0 THEN "" ELSE "  " \o Spaces(indent - 1)

\* what the forEach over Object.entries(props) pushes for one entry
PropText(entry) ==
    IF entry.type = "string"
    THEN <<entry.key \o "=\"" \o entry.value[1] \o "\"">>
    ELSE IF entry.type = "number"
    THEN <<entry.key \o "={" \o entry.value[1] \o "}">>
    ELSE IF entry.type = "boolean"
    THEN <<IF entry.value[1] = "true" THEN entry.key ELSE entry.key \o "={false}">>
    ELSE <<>>

RECURSIVE PropTexts(_)
PropTexts(props) ==
    IF props = <<>> THEN <<>> ELSE PropText(Head(props)) \o PropTexts(Tail(props))

\* ComponentToJSX that stamps the text with the time of the serialization
RECURSIVE ComponentToJSXStamped(_, _)
ComponentToJSXStamped(component, indent) ==
    Spaces(indent) \o "<" \o Join(component.element) \o " data-t={"
        \o ToString(now) \o "} />"

RECURSIVE ComponentToJSX(_, _)
ComponentToJSX(component, indent) ==
    LET spaces == Spaces(indent)
        element == Join(component.element)
        allProps ==
            (IF component.className # None /\ component.className # Some("")
             THEN <<"className=\"" \o component.className[1] \o "\"">>
             ELSE <<>>) \o PropTexts(component.props)
        propsStr == IF Len(allProps) > 0 THEN " " \o JoinWith(allProps, " ") ELSE ""
        hasChildren == Len(component.children) > 0
        content == IF component.content = None THEN "" ELSE component.content[1]
        hasContent == Len(Trim(Chars(content))) > 0
        childrenJSX ==
            JoinWith([i \in Indices(component.children) |->
                         ComponentToJSX(component.children[i], indent + 1)], "\n")
    IN  IF ~hasChildren /\ ~hasContent
        THEN spaces \o "<" \o element \o propsStr \o " />"
        ELSE IF ~hasChildren
        THEN IF /\ Len(content) < ShortContent
                /\ \A i \in 1..Len(content) : SubSeq(content, i, i) # "\n"
             THEN spaces \o "<" \o element \o propsStr \o ">" \o content
                     \o "</" \o element \o ">"
             ELSE spaces \o "<" \o element \o propsStr \o ">\n" \o spaces \o "  "
                     \o content \o "\n" \o spaces \o "</" \o element \o ">"
        ELSE IF hasContent
        THEN spaces \o "<" \o element \o propsStr \o ">\n" \o spaces \o "  "
                \o content \o "\n" \o childrenJSX \o "\n" \o spaces
                \o "</" \o element \o ">"
        ELSE spaces \o "<" \o element \o propsStr \o ">\n" \o childrenJSX \o "\n"
                \o spaces \o "</" \o element \o ">"

\* trees whose text is long, has a line break or is blank
TextNodes ==
    { Node(<<" ", "p", " ">>, c, Some(t), k) :
         c \in {None, Some("p-4")},
         t \in {"  ", "two\nlines", "a text of forty characters or more, all on one line"},
         k \in {<<>>, <<Node(<<"i", "m", "g">>, None, None, <<>>)>>} }

JSXInputs == Leaves \cup WideNodes \cup PropNodes \cup TextNodes

\* fnOut holds the texts produced so far for the tree fnIn
InitJSX ==
    /\ now = 0
    /\ canvasSize = [width |-> 800, height |-> 600]
    /\ regions = <<>>
    /\ pendingRegion = None
    /\ requests = {}
    /\ dragState = None
    /\ overlays = <<>>
    /\ gatewayCalls = 0
    /\ calls = <<>>
    /\ succeeded = {}
    /\ gestures = 0
    /\ resizeCalls = 0
    /\ released = "none"
    /\ fnIn \in JSXInputs
    /\ fnOut = <<>>

\* one render of the code view
ShowCode ==
    /\ Len(fnOut) < 2
    /\ fnOut' = Append(fnOut, ComponentToJSX(fnIn, 0))
    /\ UNCHANGED <<now, canvasSize, regions, pendingRegion, requests, dragState,
                   overlays, histVars, fnIn>>

\* the tree is shown twice while a selection is made and the canvas changes
\* its size
NextJSX ==
    \/ ShowCode
    \/ \E b \in StoreBounds, t \in ClockReadings : HandleSelectionComplete(b, t)
    \/ \E size \in CanvasSizes : HandleCanvasSizeChange(size)

SpecJSX == InitJSX /\ [][NextJSX]_vars

----------------------------------------------------------------------------
(* End to end: a selection, its prompt, the Gateway's tree, the two views.  *)

\* where the navbar selection is pressed and where it may be released
NavbarPress == [x |-> 0, y |-> 0]

NavbarReleases == { [x |-> 300, y |-> 40], [x |-> 300, y |-> 50] }

\* header trees the Gateway may return
NavbarTrees ==
    { Node(Chars("header"), Some("flex p-4"), None,
           <<Node(Chars("span"), None, Some("ipman"), <<>>),
             Node(Chars("button"), Some("px-2"), Some("Menu"), <<>>)>>),
      Node(Chars("header"), None, None,
           <<Node(Chars("nav"), None, None,
                  <<Node(Chars("a"), None, Some("Home"), <<>>)>>)>>),
      Node(Chars("header"), Some("bg-white"), Some("ipman"), <<>>) }

\* the panel of region i shows its tree, rendered or as code
ShowRegion(i) ==
    /\ i \in Indices(regions)
    /\ ShowsComponent(regions[i])
    /\ fnIn' = regions[i]
    /\ fnOut' = [display |-> DynamicComponent(regions[i].component[1]),
                 code |-> ComponentToJSX(regions[i].component[1], 0)]
    /\ UNCHANGED <<now, canvasSize, regions, pendingRegion, requests, dragState,
                   overlays, histVars>>

NextNavbar ==
    \/ HandleMouseDown(NavbarPress)
    \/ \E p \in NavbarReleases, t \in ClockReadings : HandleMouseUp(p, t)
    \/ \E prompt \in Prompts : PromptSubmit(prompt)
    \/ \E rq \in requests, component \in NavbarTrees : GenerateResolves(rq, component)
    \/ \E i \in Indices(regions) : ShowRegion(i)

SpecNavbar == Init /\ [][NextNavbar]_vars

NavbarBounds(h) == [x |-> 0, y |-> 0, width |-> 300, height |-> h]

\* the steps from a selection of 300 by h at the origin to its two views
NavbarEndToEnd(h) ==
    /\ \A t \in ClockReadings :
          HandleMouseUp([x |-> 300, y |-> h], t) =>
             /\ pendingRegion' # None
             /\ pendingRegion'[1].bounds = NavbarBounds(h)
    /\ (/\ pendingRegion # None
        /\ pendingRegion[1].bounds = NavbarBounds(h)
        /\ PromptSubmit("navbar")) =>
          /\ Len(regions') = Len(regions) + 1
          /\ regions'[Len(regions')].bounds = NavbarBounds(h)
          /\ regions'[Len(regions')].prompt = "navbar"
          /\ regions'[Len(regions')].loading
    /\ \A rq \in requests, component \in NavbarTrees :
          GenerateResolves(rq, component) =>
             \A i \in Indices(regions) :
                (regions[i].id = rq.id /\ regions[i].bounds = NavbarBounds(h)) =>
                   /\ regions'[i].bounds = NavbarBounds(h)
                   /\ regions'[i].component = Some(component)
                   /\ ShowsComponent(regions'[i])
    /\ \A i \in Indices(regions) :
          (ShowRegion(i) /\ regions[i].bounds = NavbarBounds(h)) =>
             LET given == regions[i].component[1].className
             IN  /\ fnOut'.display.tag = "header"
                 /\ fnOut'.display.className =
                       Some(IF given = None THEN "w-full h-full"
                            ELSE "w-full h-full " \o given[1])
                 /\ SubSeq(fnOut'.code, 1, 7) = "<header"

\* C35 as stated: a selection of 300 by 40 at the origin, the prompt
\* "navbar" and a header tree from the Gateway give a committed region whose
\* rendered root has the fill classes and the author's and whose code begins
\* with "<header".
C35_NavbarEndToEnd40 == [][NavbarEndToEnd(40)]_vars

\* C35 amended: the same for a selection of 300 by 50, the smallest height a
\* selection may have.
C35_NavbarEndToEnd == [][NavbarEndToEnd(MIN_SELECTION_SIZE)]_vars

\* the region of 300 by 50 shows the header tree with the author's classes
C35_Witness ==
    /\ fnOut # None
    /\ fnIn.bounds = NavbarBounds(MIN_SELECTION_SIZE)
    /\ fnIn.prompt = "navbar"
    /\ fnIn.component[1].className = Some("flex p-4")
    /\ fnOut.display.className = Some("w-full h-full flex p-4")
    /\ fnOut.display.tag = "header"
    /\ Len(fnOut.display.children) = 2
    /\ SubSeq(fnOut.code, 1, 7) = "<header"


\* C36: a Gateway response changes only component, loading and error of the
\* region it was issued for and keeps the stored bounds, also while a gesture
\* on that region is under way; the release of a gesture changes only the
\* bounds of its region and keeps what the response set; neither changes a
\* different region.
C36_ResponseAndCommitIndependent ==
    [][/\ \A rq \in requests, component \in Trees, m \in ErrMsgs :
             (\/ GenerateResolves(rq, component) \/ GenerateRejects(rq, m)
              \/ RefineResolves(rq, component) \/ RefineRejects(rq, m)) =>
                /\ Len(regions') = Len(regions)
                /\ \A j \in Indices(regions) :
                      /\ regions'[j].bounds = regions[j].bounds
                      /\ regions'[j].id = regions[j].id
                      /\ regions'[j].prompt = regions[j].prompt
                      /\ rq.n \notin calls[j] => regions'[j] = regions[j]
       /\ \A i \in Indices(regions) :
             OverlayMouseUp(i) =>
                /\ Len(regions') = Len(regions)
                /\ regions'[i].component = regions[i].component
                /\ regions'[i].loading = regions[i].loading
                /\ regions'[i].error = regions[i].error
                /\ \A j \in Indices(regions) \ {i} : regions'[j] = regions[j]]_vars


\* the Gateway requests outstanding for the id
OutstandingFor(regionId) == { rq \in requests : rq.id = regionId }

\* C37: a committed region is loading exactly when one Gateway request for
\* its id is outstanding, and no id has two requests outstanding at once.
C37_LoadingIffOneRequest ==
    /\ \A i \in Indices(regions) :
          regions[i].loading <=> Cardinality(OutstandingFor(regions[i].id)) = 1
    /\ \A rq \in requests : Cardinality(OutstandingFor(rq.id)) <= 1

----------------------------------------------------------------------------
(* A gesture step by step: the pointer listeners of the drag and the resize *)
(* effect are closures of one render; a later render registers new ones.    *)

\* the effect's body: the overlay with listeners registered, captured being
\* the localBounds of the render whose handleMouseUp is on the document
RegisterListeners(ov) ==
    [resizeState |-> ov.resizeState, dragState |-> ov.dragState,
     localBounds |-> ov.localBounds, isEditing |-> ov.isEditing,
     editError |-> ov.editError, isRefining |-> ov.isRefining,
     captured |-> ov.localBounds]

\* the press on the body of region i, its render and the effect that follows
GestureDragStart(i, p) ==
    /\ PointerUp
    /\ gatewayCalls + gestures < MaxOps
    /\ ~IsInInputMode(overlays[i])
    /\ overlays' = [overlays EXCEPT ![i] =
          RegisterListeners(
             [overlays[i] EXCEPT
                 !.dragState = Some([startX |-> p.x, startY |-> p.y,
                                     startBounds |-> regions[i].bounds]),
                 !.localBounds = Some(regions[i].bounds)])]
    /\ gestures' = gestures + 1
    /\ UNCHANGED <<now, canvasSize, regions, pendingRegion, requests, dragState,
                   gatewayCalls, calls, succeeded, resizeCalls, released, fnVars>>

\* the press on a handle of region i, its render and the effect that follows
GestureResizeStart(i, handle, p) ==
    /\ PointerUp
    /\ gatewayCalls + gestures < MaxOps
    /\ overlays' = [overlays EXCEPT ![i] =
          RegisterListeners(
             [overlays[i] EXCEPT
                 !.resizeState = Some([handle |-> handle,
                                       startX |-> p.x, startY |-> p.y,
                                       startBounds |-> regions[i].bounds]),
                 !.localBounds = Some(regions[i].bounds)])]
    /\ gestures' = gestures + 1
    /\ UNCHANGED <<now, canvasSize, regions, pendingRegion, requests, dragState,
                   gatewayCalls, calls, succeeded, resizeCalls, released, fnVars>>

\* a mousemove on the document: handleMouseMove sets localBounds, the
\* registered listeners stay as they are until the overlay renders again
ListenerMouseMove(p) ==
    /\ \E i \in Indices(overlays) : IsInteracting(overlays[i])
    /\ MouseMove(p)

\* overlay i renders with the new localBounds and its effect runs again: the
\* old listeners are removed and the new render's are registered
EffectRuns(i) ==
    /\ IsInteracting(overlays[i])
    /\ overlays[i].captured # overlays[i].localBounds
    /\ overlays' = [overlays EXCEPT ![i] = RegisterListeners(overlays[i])]
    /\ UNCHANGED <<now, canvasSize, regions, pendingRegion, requests, dragState,
                   histVars, fnVars>>

\* a mouseup on the document: the registered handleMouseUp runs with the
\* localBounds it closed over; the overlay renders without a gesture and the
\* effect's cleanup removes the listeners
ListenerMouseUp(i) ==
    /\ IsInteracting(overlays[i])
    /\ IF overlays[i].captured # None
       THEN /\ regions' = HandleRegionResize(regions, regions[i].id,
                                             overlays[i].captured[1])
            /\ resizeCalls' = resizeCalls + 1
       ELSE UNCHANGED <<regions, resizeCalls>>
    /\ overlays' = [overlays EXCEPT ![i] = NewOverlay]
    /\ UNCHANGED <<now, canvasSize, pendingRegion, requests, dragState,
                   gatewayCalls, calls, succeeded, gestures, released, fnVars>>

NextGesture ==
    \/ \E p \in PressPoints : HandleMouseDown(p)
    \/ \E p \in Points, t \in ClockReadings : HandleMouseUp(p, t)
    \/ \E prompt \in Prompts : PromptSubmit(prompt)
    \/ \E rq \in requests, component \in Trees : GenerateResolves(rq, component)
    \/ \E i \in Indices(regions), p \in OverlayPoints : GestureDragStart(i, p)
    \/ \E i \in Indices(regions), handle \in Handles, p \in OverlayPoints :
          GestureResizeStart(i, handle, p)
    \/ \E p \in Points : ListenerMouseMove(p)
    \/ \E i \in Indices(regions) : EffectRuns(i)
    \/ \E i \in Indices(regions) : ListenerMouseUp(i)

SpecGesture == Init /\ [][NextGesture]_vars

\* C38: the bounds passed to resize at the release of a gesture are the
\* candidate of the gesture's last pointer move, or the start bounds when the
\* pointer did not move, whether or not the overlay has rendered and
\* registered its listeners again since that move.
C38_ReleaseCommitsLastCandidate ==
    [][\A i \in Indices(regions) :
          ListenerMouseUp(i) =>
             /\ resizeCalls' = resizeCalls + 1
             /\ regions'[i].bounds = overlays[i].localBounds[1]]_vars

----------------------------------------------------------------------------
(* Trees as JSON.parse returns them: the element of a node may be missing   *)
(* or may not be a string.                                                  *)

\* a parsed node: typeof is the type of its element, which is spelled out in
\* characters when it is a string
JsonNode(typeof, element, className, content, children) ==
    [typeof |-> typeof, element |-> element, className |-> className,
     props |-> <<>>, content |-> content, children |-> children]

\* what a call of a method on undefined, or of a method a number does not
\* have, throws
TypeError == [throws |-> "TypeError"]

\* !parsed.element || typeof parsed.element !== 'string' is false
IsAccepted(parsed) == parsed.typeof = "string" /\ parsed.element # <<>>

\* renderElement on a parsed tree: sanitizeElement calls element.toLowerCase()
\* and an exception leaves every enclosing call
RECURSIVE RenderParsed(_, _, _)
RenderParsed(node, key, isRoot) ==
    IF node.typeof # "string" THEN TypeError
    ELSE LET sanitizedElement == SanitizeElement(node.element)
             elementProps == ElementProps(node, key, isRoot)
             text == IF node.content # None /\ node.content # Some("")
                     THEN <<Display("#text", None, node.content[1], <<>>)>>
                     ELSE <<>>
             rendered == [i \in Indices(node.children) |->
                             RenderParsed(node.children[i], Some(ToString(i - 1)), FALSE)]
         IN  IF sanitizedElement \in VOID_ELEMENTS
             THEN CreateElement(sanitizedElement, elementProps, <<>>)
             ELSE IF \E i \in Indices(rendered) : rendered[i] = TypeError
             THEN TypeError
             ELSE CreateElement(sanitizedElement, elementProps, text \o rendered)

ParsedElements ==
    { [typeof |-> "string", element |-> e] :
         e \in { <<"d", "i", "v">>, <<"i", "m", "g">>, <<"N", "a", "v">>, <<>> } }
    \cup { [typeof |-> "undefined", element |-> <<>>],
           [typeof |-> "number", element |-> <<>>] }

ParsedLeaves ==
    { JsonNode(e.typeof, e.element, c, t, <<>>) :
         e \in ParsedElements, c \in {None, Some("p-4")}, t \in Contents }

\* the parsed trees of at most two levels, and some of three
ParsedInputs ==
    ParsedLeaves
    \cup { JsonNode(e.typeof, e.element, None, None, <<k>>) :
              e \in ParsedElements, k \in ParsedLeaves }
    \cup { JsonNode("string", <<"d", "i", "v">>, None, Some("Hi"),
                    <<JsonNode("string", <<"p">>, None, None, <<>>),
                      JsonNode(e.typeof, e.element, None, None, <<k>>)>>) :
              e \in ParsedElements, k \in ParsedLeaves }

InitParsed ==
    /\ now = 0
    /\ canvasSize = [width |-> 800, height |-> 600]
    /\ regions = <<>>
    /\ pendingRegion = None
    /\ requests = {}
    /\ dragState = None
    /\ overlays = <<>>
    /\ gatewayCalls = 0
    /\ calls = <<>>
    /\ succeeded = {}
    /\ gestures = 0
    /\ resizeCalls = 0
    /\ released = "none"
    /\ fnIn \in ParsedInputs
    /\ fnOut = [stage |-> "parsed"]

\* the check of generateComponent, refineComponent and handleSaveEdit
CheckParsed ==
    /\ fnOut.stage = "parsed"
    /\ fnOut' = [stage |-> IF IsAccepted(fnIn) THEN "accepted" ELSE "rejected"]
    /\ UNCHANGED <<now, canvasSize, regions, pendingRegion, requests, dragState,
                   overlays, histVars, fnIn>>

\* the overlay renders the accepted tree
RenderAccepted ==
    /\ fnOut.stage = "accepted"
    /\ fnOut' = [stage |-> "rendered", display |-> RenderParsed(fnIn, None, TRUE)]
    /\ UNCHANGED <<now, canvasSize, regions, pendingRegion, requests, dragState,
                   overlays, histVars, fnIn>>

NextParsed == CheckParsed \/ RenderAccepted

SpecParsed == InitParsed /\ [][NextParsed]_vars

\* C39: every tree that passes the check of its root renders to a display
\* node, also when a nested node has no element or one that is not a string.
C39_AcceptedTreesRender ==
    fnOut.stage = "rendered" => fnOut.display # TypeError


\* C40: while a committed region has an error, refine and edit are not
\* offered on it, so no operation on that region starts a Gateway call or
\* clears its error: a move or a resize of the region keeps the error and
\* issues no call, and the only other operation is its deletion.
C40_ErrorIsFinal ==
    [][\A i \in Indices(regions) :
          regions[i].error # None =>
             /\ \A t \in RefineTexts, b \in EditBuffers :
                   /\ ~HandleStartRefine(i)
                   /\ ~HandleSubmitRefine(i, t)
                   /\ ~HandleStartEdit(i)
                   /\ ~HandleSaveEdit(i, b)
             /\ \A p \in Points, handle \in Handles :
                   (\/ HandleDragStart(i, p)
                    \/ HandleResizeStart(i, handle, p)
                    \/ MouseMove(p)
                    \/ OverlayMouseUp(i)) =>
                      /\ Len(regions') = Len(regions)
                      /\ regions'[i].error = regions[i].error
                      /\ regions'[i].component = regions[i].component
                      /\ requests' = requests
                      /\ gatewayCalls' = gatewayCalls]_vars

\* a refinement of a region that has a tree failed: the region shows the
\* error and keeps the tree
C40_Witness ==
    \E i \in Indices(regions) :
       /\ regions[i].error # None
       /\ regions[i].component # None
       /\ ~regions[i].loading
       /\ Cardinality(calls[i]) = 2
       /\ requests = {}

====
